---- MODULE Spec2Model ----
(***************************************************************************)
(* MMET Predictor: COA text -> Product -> baseline effect vector ->        *)
(* 0..5 scores -> personalized scores, and the zustand store around them.  *)
(*                                                                         *)
(* Number representation (JavaScript doubles are modelled in fixed point): *)
(*   - signals in [0,1] are integers in units of 1/Scale (Scale = 10000);  *)
(*   - percentages (THC %, terpene %) are integers in thousandths of a     *)
(*     percent ("mills": 0.6% = 600), the grain roundPct keeps;            *)
(*   - scores and session actuals are integers in hundredths of a point    *)
(*     (2.5 = 250);                                                        *)
(*   - NaN and null/undefined are two sentinel integers outside any range. *)
(***************************************************************************)
EXTENDS Integers, Sequences, FiniteSets, TLC

Scale == 100 * 100
NaN == 0 - 1000000000
Null == NaN - 1

Max2(a, b) == IF a >= b THEN a ELSE b
Min2(a, b) == IF a <= b THEN a ELSE b

(* c/100 * x, for the decimal literals of the source *)
(* the element of a singleton set; { F(x) : x \in {e} } evaluates e once *)
Only(S) == CHOOSE x \in S : TRUE

Pct(c, x) == (c * x) \div 100

(***************************************************************************)
(* src/utils/mmetBaselineFormulas.js                                       *)
(***************************************************************************)
clamp01_noUpper(x) == Max2(0, x)

clamp01(x) == Max2(0, Min2(Scale, x))

(* num(v, d): Number(v) when finite, else d.  Number(null) is 0. *)
num(v, d) == IF v = NaN THEN d ELSE IF v = Null THEN 0 ELSE v

THC_WEIGHT == 65
TERP_WEIGHT == 25
FORM_WEIGHT == 10

(* min/max in mills of THC percent; max = -1 stands for Infinity *)
THC_BANDS ==
  << [key |-> "micro",     min |-> 0,     max |-> 10000, anxietyRisk |-> 1500, potency |-> 2000],
     [key |-> "low",       min |-> 10000, max |-> 15000, anxietyRisk |-> 2500, potency |-> 3500],
     [key |-> "medium",    min |-> 15000, max |-> 20000, anxietyRisk |-> 4000, potency |-> 5000],
     [key |-> "high",      min |-> 20000, max |-> 25000, anxietyRisk |-> 5500, potency |-> 6500],
     [key |-> "very_high", min |-> 25000, max |-> 35000, anxietyRisk |-> 7000, potency |-> 8000],
     [key |-> "extreme",   min |-> 35000, max |-> -1,    anxietyRisk |-> 8500, potency |-> 9500] >>

FormKeys == {"edible", "vape", "concentrate", "live_resin", "flower", "topical"}

(* intensityMod, anxietyRiskAdd, terpeneRetention in 1/Scale; durationMod in *)
(* hundredths; baseDurationHours in hours                                    *)
FORM_MODIFIERS ==
  [k \in FormKeys |->
    CASE k = "edible" ->
           [key |-> k, intensityMod |-> 12500, durationMod |-> 320, anxietyRiskAdd |-> 1800,
            terpeneRetention |-> 2500, onsetMinutes |-> 60, baseDurationHours |-> 6]
      [] k = "vape" ->
           [key |-> k, intensityMod |-> 11500, durationMod |-> 125, anxietyRiskAdd |-> 1200,
            terpeneRetention |-> 5500, onsetMinutes |-> 4, baseDurationHours |-> 2]
      [] k = "concentrate" ->
           [key |-> k, intensityMod |-> 13500, durationMod |-> 135, anxietyRiskAdd |-> 1600,
            terpeneRetention |-> 4500, onsetMinutes |-> 5, baseDurationHours |-> 2]
      [] k = "live_resin" ->
           [key |-> k, intensityMod |-> 12500, durationMod |-> 135, anxietyRiskAdd |-> 1000,
            terpeneRetention |-> 8000, onsetMinutes |-> 5, baseDurationHours |-> 2]
      [] k = "flower" ->
           [key |-> k, intensityMod |-> 10000, durationMod |-> 100, anxietyRiskAdd |-> 0,
            terpeneRetention |-> 9500, onsetMinutes |-> 8, baseDurationHours |-> 2]
      [] k = "topical" ->
           [key |-> k, intensityMod |-> 0, durationMod |-> 0, anxietyRiskAdd |-> 0,
            terpeneRetention |-> 10000, onsetMinutes |-> 0, baseDurationHours |-> 0]]

(* Raw form strings come from a fixed universe; WordsOf(raw) is the set of  *)
(* keywords the lower-cased string contains, so s.includes(k) is            *)
(* k \in WordsOf(raw).  NullStr stands for a null / undefined string.       *)
NullStr == "<null>"

RawForms ==
  {"", "Flower", "Live Badder", "Live Resin", "Crumble", "Wax", "Cart", "Vape",
   "Gummy", "Topical", "Salve", "Concentrate", "Blend", "Diamonds", "Jam", "Extract",
   "Live Rosin", "Live Sugar", "Live Sauce"}

WordsOf(raw) ==
  CASE raw = "Flower" -> {"flower"}
    [] raw = "Live Badder" -> {"live", "badder"}
    [] raw = "Live Resin" -> {"live", "resin", "live resin"}
    [] raw = "Live Rosin" -> {"live", "rosin"}
    [] raw = "Live Sugar" -> {"live", "sugar"}
    [] raw = "Live Sauce" -> {"live", "sauce"}
    [] raw = "Crumble" -> {"crumble"}
    [] raw = "Wax" -> {"wax"}
    [] raw = "Cart" -> {"cart"}
    [] raw = "Vape" -> {"vape"}
    [] raw = "Gummy" -> {"gummy"}
    [] raw = "Topical" -> {"topical"}
    [] raw = "Salve" -> {"salve"}
    [] raw = "Concentrate" -> {"concentrate"}
    [] raw = "Diamonds" -> {"diamonds"}
    [] OTHER -> {}

Includes(raw, words) == (WordsOf(raw) \cap words) # {}

normalizeFormType(raw) ==
  IF raw = NullStr \/ raw = "" THEN "flower"
  ELSE IF Includes(raw, {"topical", "salve", "cream", "lotion"}) THEN "topical"
  ELSE IF Includes(raw, {"edible", "gummy", "cookie", "brownie", "chocolate", "capsule",
                         "tincture", "drink", "beverage"}) THEN "edible"
  ELSE IF Includes(raw, {"vape", "cart", "cartridge", "distillate", "pod"}) THEN "vape"
  ELSE IF Includes(raw, {"live"})
          /\ Includes(raw, {"resin", "badder", "sugar", "sauce", "diamonds"}) THEN "live_resin"
  ELSE IF Includes(raw, {"live resin"}) THEN "live_resin"
  ELSE IF Includes(raw, {"concentrate", "wax", "shatter", "rosin", "crumble", "badder",
                         "sugar", "sauce", "diamonds"}) THEN "concentrate"
  ELSE "flower"

(* a band lookup whose upper bounds are inclusive *)
getTHCBand_closedMax(thcPct) ==
  LET t == num(thcPct, 0)
      hits == {i \in 1..Len(THC_BANDS) :
                 t >= THC_BANDS[i].min /\ (THC_BANDS[i].max = -1 \/ t <= THC_BANDS[i].max)}
  IN IF hits = {} THEN THC_BANDS[1]
     ELSE THC_BANDS[CHOOSE i \in hits : \A j \in hits : i <= j]

(* first band with min <= t < max, else THC_BANDS[0] *)
getTHCBand(thcPct) ==
  LET t == num(thcPct, 0)
      hits == {i \in 1..Len(THC_BANDS) :
                 t >= THC_BANDS[i].min /\ (THC_BANDS[i].max = -1 \/ t < THC_BANDS[i].max)}
  IN IF hits = {} THEN THC_BANDS[1]
     ELSE THC_BANDS[CHOOSE i \in hits : \A j \in hits : i <= j]

(* The engine's own name normaliser: lower-case, Greek letters spelled out, *)
(* whitespace collapsed and trimmed.  Hyphens are kept.  In a name,         *)
(* "[beta]" and "[alpha]" stand for the Greek letters themselves.           *)
normalizeTerpName_engine(name) ==
  CASE name = NullStr -> ""
    [] name = "Myrcene" -> "myrcene"
    [] name = "[beta]-Myrcene" -> "beta-myrcene"
    [] name = "Beta Myrcene" -> "beta myrcene"
    [] name = "Limonene" -> "limonene"
    [] name = "D-Limonene" -> "d-limonene"
    [] name = "Terpinolene" -> "terpinolene"
    [] name = "Terpineol" -> "terpineol"
    [] name = "[beta]-Caryophyllene" -> "beta-caryophyllene"
    [] name = "beta caryophyllene" -> "beta caryophyllene"
    [] name = "Caryophyllene" -> "caryophyllene"
    [] name = "Linalool" -> "linalool"
    [] name = "[alpha]-Humulene" -> "alpha-humulene"
    [] name = "[alpha]-Bisabolol" -> "alpha-bisabolol"
    [] name = "[alpha]-Pinene" -> "alpha-pinene"
    [] name = "[beta]-Pinene" -> "beta-pinene"
    [] name = "Ocimenes" -> "ocimenes"
    [] name = "Guaiol" -> "guaiol"
    [] name = "beta-Myrcene" -> "beta-myrcene"
    [] name = "gamma-Terpineol" -> "gamma-terpineol"
    [] name = "trans-Nerolidol" -> "trans-nerolidol"
    [] name = "cis-Ocimenes" -> "cis-ocimenes"
    [] name = "Total" -> "total"
    [] OTHER -> name

RECURSIVE buildTerpMapFrom(_, _)
buildTerpMapFrom(terpenes, map) ==
  IF terpenes = << >> THEN map
  ELSE LET t == Head(terpenes)
           n == normalizeTerpName_engine(t.name)
           pct == num(t.pct, 0)
           old == IF n \in DOMAIN map THEN map[n] ELSE 0
       IN IF n = "" THEN buildTerpMapFrom(Tail(terpenes), map)
          ELSE buildTerpMapFrom(Tail(terpenes),
                 [k \in (DOMAIN map) \cup {n} |-> IF k = n THEN old + pct ELSE map[k]])

buildTerpMap(terpenes) == buildTerpMapFrom(terpenes, [k \in {} |-> 0])

thcBaseVector(potency) ==
  LET p == clamp01(potency)
  IN [head     |-> clamp01(1800 + Pct(50, p)),
      clarity  |-> clamp01(8600 - Pct(46, p)),
      sedation |-> clamp01(800 + Pct(55, p)),
      couch    |-> clamp01(500 + Pct(45, p)),
      pain     |-> clamp01(1800 + Pct(40, p))]

(* get(...keys): the value under the first key the map has, else 0 *)
RECURSIVE terpGet(_, _)
terpGet(terpMap, keys) ==
  IF keys = << >> THEN 0
  ELSE IF Head(keys) \in DOMAIN terpMap THEN terpMap[Head(keys)]
  ELSE terpGet(terpMap, Tail(keys))

(* clamp01(pct / d) for a percentage in mills and a divisor d in tenths *)
Frac01(mills, dTenths) == clamp01((mills * 100) \div dTenths)

(* terpStrength = clamp01(totalTerpenes / 10): mills / 1000 / 10 * Scale = mills *)
terpStrengthOf(totalTerpenesPct) == clamp01(num(totalTerpenesPct, 0))

(* The nine modifier blocks of applyTerpModifiers, in source order.  Each   *)
(* maps the running vector to the next one.                                 *)
terpStep(i, out, terpMap, ts) ==
  CASE i = 1 ->
         LET caryo == terpGet(terpMap, <<"beta-caryophyllene", "beta caryophyllene", "caryophyllene">>)
         IN IF caryo > 0
            THEN [out EXCEPT !.pain = clamp01(@ + Pct(10, ts) + Pct(6, Frac01(caryo, 30))),
                             !.sedation = clamp01(@ + Pct(4, ts)),
                             !.couch = clamp01(@ + Pct(3, ts))]
            ELSE out
    [] i = 2 ->
         LET linalool == terpGet(terpMap, <<"linalool">>)
         IN IF linalool > 0
            THEN [out EXCEPT !.sedation = clamp01(@ + Pct(10, ts) + Pct(6, Frac01(linalool, 15))),
                             !.clarity = clamp01(@ - Pct(3, ts)),
                             !.couch = clamp01(@ + Pct(4, ts))]
            ELSE out
    [] i = 3 ->
         LET limonene == terpGet(terpMap, <<"d-limonene", "limonene">>)
         IN IF limonene > 0
            THEN [out EXCEPT !.head = clamp01(@ + Pct(7, ts) + Pct(5, Frac01(limonene, 12))),
                             !.clarity = clamp01(@ + Pct(7, ts)),
                             !.sedation = clamp01(@ - Pct(3, ts))]
            ELSE out
    [] i = 4 ->
         LET myrcene == terpGet(terpMap, <<"myrcene", "beta-myrcene", "[beta]-myrcene">>)
         IN IF myrcene > 0
            THEN [out EXCEPT !.sedation = clamp01(@ + Pct(8, ts) + Pct(4, Frac01(myrcene, 15))),
                             !.couch = clamp01(@ + Pct(10, ts) + Pct(5, Frac01(myrcene, 15))),
                             !.clarity = clamp01(@ - Pct(5, ts))]
            ELSE out
    [] i = 5 ->
         LET humulene == terpGet(terpMap, <<"alpha-humulene", "humulene">>)
         IN IF humulene > 0
            THEN [out EXCEPT !.pain = clamp01(@ + Pct(5, ts)),
                             !.sedation = clamp01(@ + Pct(2, ts))]
            ELSE out
    [] i = 6 ->
         LET bisabolol == terpGet(terpMap, <<"alpha-bisabolol", "bisabolol">>)
         IN IF bisabolol > 0
            THEN [out EXCEPT !.pain = clamp01(@ + Pct(4, ts)),
                             !.sedation = clamp01(@ + Pct(3, ts))]
            ELSE out
    [] i = 7 ->
         LET terpinolene == terpGet(terpMap, <<"terpinolene">>)
         IN IF terpinolene > 0
            THEN [out EXCEPT !.head = clamp01(@ + Pct(6, ts)),
                             !.clarity = clamp01(@ - Pct(3, ts))]
            ELSE out
    [] i = 8 ->
         LET pinene == terpGet(terpMap, <<"alpha-pinene", "beta-pinene", "pinene">>)
         IN IF pinene > 0
            THEN [out EXCEPT !.clarity = clamp01(@ + Pct(7, ts)),
                             !.sedation = clamp01(@ - Pct(3, ts))]
            ELSE out
    [] i = 9 ->
         LET ocimene == terpGet(terpMap, <<"ocimene", "ocimenes">>)
         IN IF ocimene > 0
            THEN [out EXCEPT !.head = clamp01(@ + Pct(3, ts))]
            ELSE out

(* the running vector after the first i modifier blocks *)
RECURSIVE terpStepsUpTo(_, _, _, _)
terpStepsUpTo(i, vec, terpMap, ts) ==
  IF i = 0 THEN vec
  ELSE terpStep(i, terpStepsUpTo(i - 1, vec, terpMap, ts), terpMap, ts)

applyTerpModifiers(vec, terpMap, totalTerpenesPct) ==
  terpStepsUpTo(9, vec, terpMap, terpStrengthOf(totalTerpenesPct))

ZeroVec == [head |-> 0, clarity |-> 0, sedation |-> 0, couch |-> 0, pain |-> 0]

formDirectVector(formKey) ==
  LET f == IF formKey \in FormKeys THEN FORM_MODIFIERS[formKey] ELSE FORM_MODIFIERS["flower"]
  IN IF f.intensityMod = 0 THEN ZeroVec
     ELSE IF formKey = "edible"
       THEN [head |-> 800, clarity |-> 600, sedation |-> 1400, couch |-> 1200, pain |-> 1000]
     ELSE IF formKey = "vape"
       THEN [head |-> 1200, clarity |-> 1000, sedation |-> 800, couch |-> 800, pain |-> 800]
     ELSE IF formKey = "live_resin"
       THEN [head |-> 1000, clarity |-> 1000, sedation |-> 1000, couch |-> 1000, pain |-> 1000]
     ELSE IF formKey = "concentrate"
       THEN [head |-> 1000, clarity |-> 600, sedation |-> 1400, couch |-> 1200, pain |-> 1000]
     ELSE [head |-> 800, clarity |-> 1200, sedation |-> 800, couch |-> 800, pain |-> 1000]

(* weights in hundredths *)
mixWeighted(a, b, wA, wB) ==
  [head     |-> clamp01((a.head * wA + b.head * wB) \div 100),
   clarity  |-> clamp01((a.clarity * wA + b.clarity * wB) \div 100),
   sedation |-> clamp01((a.sedation * wA + b.sedation * wB) \div 100),
   couch    |-> clamp01((a.couch * wA + b.couch * wB) \div 100),
   pain     |-> clamp01((a.pain * wA + b.pain * wB) \div 100)]

applyIntensityShaping(vec, intensity) ==
  LET i == Max2(0, num(intensity, Scale) - Scale)
  IN IF i <= 0 THEN vec
     ELSE [head     |-> clamp01(vec.head + Pct(5, i)),
           clarity  |-> clamp01(vec.clarity - Pct(10, i)),
           sedation |-> clamp01(vec.sedation + Pct(18, i)),
           couch    |-> clamp01(vec.couch + Pct(14, i)),
           pain     |-> clamp01(vec.pain + Pct(10, i))]

(* a lookup that only tries the second key *)
terpOr_secondOnly(terpMap, a, b) == IF b \in DOMAIN terpMap THEN terpMap[b] ELSE 0

(* map.get(a) || map.get(b) || 0 *)
terpOr(terpMap, a, b) ==
  LET va == IF a \in DOMAIN terpMap THEN terpMap[a] ELSE 0
      vb == IF b \in DOMAIN terpMap THEN terpMap[b] ELSE 0
  IN IF va # 0 THEN va ELSE vb

(* calculateBaseline; with trace = TRUE the record also carries every      *)
(* intermediate value: steps = the vector after each of the nine modifier   *)
(* blocks, then thcVec, terpVec, thcTerpBlend, formVec, baselineVec,        *)
(* scaled; anxSteps = anxietyRisk before and after each of its three rules. *)
calculateBaselineTraced(input, trace) ==
  LET totalTHC == num(input.totalTHC, 0)
      totalTerpenes == num(input.totalTerpenes, 0)
      formKey == normalizeFormType(input.form)
      terps == input.terpenes
      thcBand == getTHCBand(totalTHC)
      form == FORM_MODIFIERS[formKey]
      thcVec == thcBaseVector(thcBand.potency)
      terpMap == buildTerpMap(terps)
      ts == terpStrengthOf(totalTerpenes)
      terpVec == applyTerpModifiers(thcVec, terpMap, totalTerpenes)
      thcTerpBlend == mixWeighted(thcVec, terpVec, 100 - TERP_WEIGHT, TERP_WEIGHT)
      formVec == formDirectVector(formKey)
      baselineVec == mixWeighted(thcTerpBlend, formVec, 100 - FORM_WEIGHT, FORM_WEIGHT)
      intensity == num(form.intensityMod, Scale)
      scaled == IF intensity = 0 THEN ZeroVec ELSE applyIntensityShaping(baselineVec, intensity)
      anx0 == clamp01(thcBand.anxietyRisk + num(form.anxietyRiskAdd, 0))
      limonenePct == num(terpOr(terpMap, "limonene", "d-limonene"), 0)
      terpinolenePct == num(terpOr(terpMap, "terpinolene", "terpinolene"), 0)
      myrcenePct == num(terpOr(terpMap, "myrcene", "beta-myrcene"), 0)
      anx1 == IF limonenePct > 300 THEN clamp01(anx0 - 800) ELSE anx0
      anx2 == IF terpinolenePct > 300 THEN clamp01(anx1 + 800) ELSE anx1
      retention == num(form.terpeneRetention, 9000)
      anx3 == IF retention < 5000 THEN clamp01(Pct(115, anx2)) ELSE anx2
      couch == IF myrcenePct > 500 THEN clamp01(scaled.couch + 1200) ELSE scaled.couch
      durationHours == num(form.baseDurationHours, 2) * num(form.durationMod, 100)
  IN [head |-> scaled.head, clarity |-> scaled.clarity, sedation |-> scaled.sedation,
      couch |-> couch, pain |-> scaled.pain, anxietyRisk |-> anx3,
      durationHours |-> durationHours, onsetMinutes |-> num(form.onsetMinutes, 10),
      formKey |-> form.key, thcBand |-> thcBand.key,
      steps |-> IF trace
                THEN [i \in 1..9 |-> terpStepsUpTo(i, thcVec, terpMap, ts)]
                     \o << thcVec, terpVec, thcTerpBlend, formVec, baselineVec, scaled >>
                ELSE << >>,
      anxSteps |-> IF trace THEN << anx0, anx1, anx2, anx3 >> ELSE << >>]

calculateBaseline(input) == calculateBaselineTraced(input, FALSE)

(***************************************************************************)
(* src/utils/scoring.js (the current definitions, lines 283-460)           *)
(***************************************************************************)
DIMS == << "pain", "head", "couch", "clarity", "duration", "functionality", "anxiety" >>

DimSet == {DIMS[i] : i \in 1..Len(DIMS)}

(* Math.round(n / d) for d > 0: the nearest integer, halves towards +Infinity *)
MathRound(n, d) == (2 * n + d) \div (2 * d)

(* toHalf(n / d) in hundredths of a point: Math.round(v * 2) / 2 *)
toHalf(n, d) == 50 * MathRound(2 * n, d)

(* Math.pow(t, gamma) is only ever consumed as toHalf(5 * pow(t, gamma)),   *)
(* i.e. as Math.round(10 * t^gamma).  That integer is the number of k in    *)
(* 1..10 with t^gamma >= (2k-1)/20, i.e. with t >= ((2k-1)/20)^(1/gamma).   *)
(* PowThresholds[gamma][k] is that bound in 1/Scale, rounded up; gamma in   *)
(* hundredths.                                                              *)
PowThresholds ==
  [g \in {105, 110, 120, 125, 135} |->
    CASE g = 105 -> << 577, 1642, 2671, 3680, 4675, 5659, 6635, 7604, 8567, 9524 >>
      [] g = 110 -> << 657, 1783, 2836, 3851, 4839, 5808, 6760, 7699, 8627, 9545 >>
      [] g = 120 -> << 824, 2058, 3150, 4170, 5141, 6077, 6984, 7869, 8734, 9582 >>
      [] g = 125 -> << 911, 2193, 3299, 4318, 5280, 6199, 7085, 7945, 8781, 9598 >>
      [] g = 135 -> << 1088, 2453, 3582, 4595, 5536, 6423, 7269, 8081, 8866, 9628 >>]

roundTenPow(t, gamma) == Cardinality({k \in 1..10 : t >= PowThresholds[gamma][k]})

(* toScore5Scaled(x01, {lo, hi, gamma}): result in hundredths of a point;   *)
(* lo, hi in 1/Scale, gamma in hundredths                                   *)
toScore5Scaled(x01, lo, hi, gamma) ==
  LET x == clamp01(num(x01, 0))
      denom == Max2(1, hi - lo)
      t == clamp01(((x - lo) * Scale) \div denom)
  IN 50 * roundTenPow(t, gamma)

Clamp05(v) == Max2(0, Min2(500, v))

(* calculateBaselineScores after the call of calculateBaseline: adv is its  *)
(* result                                                                   *)
scoresFromBaseline(adv) ==
  LET headRaw == clamp01(adv.head)
      clarityRaw == clamp01(adv.clarity)
      sedationRaw == clamp01(adv.sedation)
      couchRaw == clamp01(adv.couch)
      painRaw == clamp01(adv.pain)
      anxietyRaw == clamp01(adv.anxietyRisk)
      head01 == clamp01((78 * headRaw + 22 * clarityRaw - 28 * sedationRaw - 12 * couchRaw) \div 100)
      clarity01 == clamp01((clarityRaw * (Scale - Pct(18, sedationRaw))) \div Scale)
      couch01 == clamp01(couchRaw + Pct(18, sedationRaw))
      pain01 == clamp01(painRaw)
      durHours == num(adv.durationHours, 0)
      \* (durHours / 18) * 5 with durHours in hundredths of an hour
      durClamped == Max2(0, Min2(5 * 1800, 5 * durHours))
      duration == toHalf(durClamped, 1800)
      functionality01 ==
        clamp01((60 * clarity01 + 40 * (Scale - (62 * sedationRaw + 38 * couch01) \div 100)) \div 100)
      anxiety01 == clamp01(((anxietyRaw - 2200) * 100) \div 78)
      pain == toScore5Scaled(pain01, 1000, 8000, 110)
      head == toScore5Scaled(head01, 1500, 8500, 135)
      couch == toScore5Scaled(couch01, 1000, 8800, 125)
      clarity == toScore5Scaled(clarity01, 1200, 8800, 105)
      functionality == toScore5Scaled(functionality01, 1200, 9000, 110)
      anxiety == toScore5Scaled(anxiety01, 0, Scale, 120)
  IN [pain |-> Clamp05(pain), head |-> Clamp05(head), couch |-> Clamp05(couch),
      clarity |-> Clamp05(clarity), duration |-> Clamp05(duration),
      functionality |-> Clamp05(functionality), anxiety |-> Clamp05(anxiety)]

(* calculateBaselineScores(product): DIMS -> hundredths of a point *)
calculateBaselineScores(product) ==
  LET thc == num(product.metrics.totalTHC, 0)
      totalTerpenes == num(product.metrics.totalTerpenes, 0)
      terpenes == product.terpenes
      form == IF product.form = NullStr THEN "" ELSE product.form
  IN Only({ scoresFromBaseline(adv) :
              adv \in {calculateBaseline([totalTHC |-> thc, totalTerpenes |-> totalTerpenes,
                                          form |-> form, terpenes |-> terpenes])} })

(* (allProducts || []).find(p => p.id === productId): index of the first    *)
(* product with that id, 0 when there is none                               *)
findProduct(allProducts, productId) ==
  LET hits == {i \in 1..Len(allProducts) : allProducts[i].id = productId}
  IN IF hits = {} THEN 0 ELSE CHOOSE i \in hits : \A j \in hits : i <= j

(* calculateBaselineScores(product) for every product of the list.  The    *)
(* source recomputes it for each session and dimension; it is a pure         *)
(* function of the product, so the table is computed once per call.          *)
RECURSIVE predictedScores(_)
predictedScores(allProducts) ==
  IF allProducts = << >> THEN << >>
  ELSE << calculateBaselineScores(Head(allProducts)) >> \o predictedScores(Tail(allProducts))

(* the deltas pushed to dataPoints for one dimension, in session order.     *)
(* An actual of Null is a missing / non-number value.                       *)
RECURSIVE dataPointsOf(_, _, _, _)
dataPointsOf(dim, sessions, allProducts, predicted) ==
  IF sessions = << >> THEN << >>
  ELSE LET session == Head(sessions)
           actualValue == session.actuals[dim]
           k == findProduct(allProducts, session.productId)
           rest == dataPointsOf(dim, Tail(sessions), allProducts, predicted)
       IN IF actualValue = Null THEN rest
          ELSE IF k = 0 THEN rest
          ELSE << actualValue - predicted[k][dim] >> \o rest

RECURSIVE SumSeq(_)
SumSeq(q) == IF q = << >> THEN 0 ELSE Head(q) + SumSeq(Tail(q))

(* the same with the ceiling at 1 *)
confidenceOf_cap100(n) == Min2(n * 10, 100)

(* Math.min(n / 10, 0.8), in hundredths *)
confidenceOf(n) == Min2(n * 10, 80)

(* calculateUserCalibration: the adjustment avgDelta is kept as the exact   *)
(* fraction adjSum / dataPoints (hundredths of a point)                     *)
calibrationOfDim(dim, log, allProducts, predicted) ==
  LET dataPoints == dataPointsOf(dim, log, allProducts, predicted)
  IN IF Len(dataPoints) > 0
     THEN [adjSum |-> SumSeq(dataPoints), confidence |-> confidenceOf(Len(dataPoints)),
           dataPoints |-> Len(dataPoints)]
     ELSE [adjSum |-> 0, confidence |-> 0, dataPoints |-> 0]

calibrationWith(log, allProducts, predicted) ==
     [pain          |-> calibrationOfDim("pain", log, allProducts, predicted),
      head          |-> calibrationOfDim("head", log, allProducts, predicted),
      couch         |-> calibrationOfDim("couch", log, allProducts, predicted),
      clarity       |-> calibrationOfDim("clarity", log, allProducts, predicted),
      duration      |-> calibrationOfDim("duration", log, allProducts, predicted),
      functionality |-> calibrationOfDim("functionality", log, allProducts, predicted),
      anxiety       |-> calibrationOfDim("anxiety", log, allProducts, predicted)]

calculateUserCalibration(log, allProducts) ==
  Only({ calibrationWith(log, allProducts, predicted) :
           predicted \in {predictedScores(allProducts)} })

(* the same without the rounding step *)
personalizeDim_noRound(baseline, cal) ==
  IF cal.confidence > 0
  THEN LET n == cal.dataPoints
           numer == 100 * n * baseline + cal.adjSum * cal.confidence
       IN Clamp05(numer \div (100 * n))
  ELSE baseline

(* baseline + adjustment * confidence, rounded to 0.5, then clamped to 0..5. *)
(* With adjustment = adjSum / n and confidence = c / 100 the sum is          *)
(* (100 n baseline + adjSum c) / (100 n) hundredths of a point.              *)
personalizeDim(baseline, cal) ==
  IF cal.confidence > 0
  THEN LET n == cal.dataPoints
           numer == 100 * n * baseline + cal.adjSum * cal.confidence
       IN Clamp05(50 * MathRound(2 * numer, 100 * 100 * n))
  ELSE baseline

(* the loop over DIMS of calculatePersonalizedScores, given the calibration *)
applyCalibration(baselineScores, calibration) ==
  [pain          |-> personalizeDim(baselineScores.pain, calibration.pain),
   head          |-> personalizeDim(baselineScores.head, calibration.head),
   couch         |-> personalizeDim(baselineScores.couch, calibration.couch),
   clarity       |-> personalizeDim(baselineScores.clarity, calibration.clarity),
   duration      |-> personalizeDim(baselineScores.duration, calibration.duration),
   functionality |-> personalizeDim(baselineScores.functionality, calibration.functionality),
   anxiety       |-> personalizeDim(baselineScores.anxiety, calibration.anxiety)]

(* a personalization that learns only from the sessions of the product *)
(* it is asked about                                                   *)
calculatePersonalizedScores_ownSessions(baselineScores, log, productId, allProducts) ==
  LET own == SelectSeq(log, LAMBDA e : e.productId = productId)
  IN IF Len(log) = 0 THEN baselineScores
     ELSE applyCalibration(baselineScores, calculateUserCalibration(own, allProducts))

calculatePersonalizedScores(baselineScores, log, productId, allProducts) ==
  IF Len(log) = 0 THEN baselineScores
  ELSE applyCalibration(baselineScores, calculateUserCalibration(log, allProducts))

(***************************************************************************)
(* src/utils/terpenes.js                                                   *)
(***************************************************************************)
(* normalizeTerpName on the universe of raw names used here (trim, lower-   *)
(* case, NFKD, Greek letters to words, separators to spaces, leading        *)
(* alpha/beta/d/a/b stripped, non-letters dropped, ocimenes -> ocimene,     *)
(* terpineol -> terpinolene, known name or else last token).  A name that   *)
(* is already lower-case letters without spaces and is not one of the two   *)
(* rewritten words maps to itself.                                          *)
normalizeTerpName(rawName) ==
  CASE rawName = NullStr -> ""
    [] rawName \in {"Myrcene", "[beta]-Myrcene", "beta-Myrcene", "Beta Myrcene"} -> "myrcene"
    [] rawName \in {"Limonene", "D-Limonene"} -> "limonene"
    [] rawName \in {"[beta]-Caryophyllene", "beta caryophyllene", "Caryophyllene"} -> "caryophyllene"
    [] rawName = "Linalool" -> "linalool"
    [] rawName = "[alpha]-Humulene" -> "humulene"
    [] rawName = "[alpha]-Bisabolol" -> "bisabolol"
    [] rawName \in {"[alpha]-Pinene", "[beta]-Pinene"} -> "pinene"
    [] rawName \in {"Ocimenes", "ocimenes"} -> "ocimene"
    [] rawName \in {"Terpineol", "terpineol", "Terpinolene"} -> "terpinolene"
    [] rawName = "gamma-Terpineol" -> "terpineol"
    [] rawName = "cis-Ocimenes" -> "ocimenes"
    [] rawName = "Guaiol" -> "guaiol"
    [] rawName = "Total" -> "total"
    [] rawName = "trans-Nerolidol" -> "nerolidol"
    [] rawName = "123" -> ""
    [] OTHER -> rawName

(* roundPct(x) = Math.round(x * 1000) / 1000 for x = n / d percent-mills *)
roundPct(n, d) == MathRound(n, d)

(* stable insertion into a list sorted by descending pct (Array.sort with   *)
(* (a, b) => b.pct - a.pct keeps the order of equal elements)               *)
RECURSIVE insertByPct(_, _)
insertByPct(sorted, t) ==
  IF sorted = << >> THEN << t >>
  ELSE IF Head(sorted).pct >= t.pct THEN << Head(sorted) >> \o insertByPct(Tail(sorted), t)
  ELSE << t >> \o sorted

RECURSIVE sortByPctDesc(_)
sortByPctDesc(list) ==
  IF list = << >> THEN << >>
  ELSE insertByPct(sortByPctDesc(SubSeq(list, 1, Len(list) - 1)), list[Len(list)])

(* Map insertion order: the totals are kept as a list of [name, pct] in     *)
(* first-insertion order.                                                   *)
(* a merge that keeps the larger percentage instead of adding *)
RECURSIVE mapAdd_max(_, _, _)
mapAdd_max(entries, name, pct) ==
  IF entries = << >> THEN << [name |-> name, pct |-> pct] >>
  ELSE IF Head(entries).name = name
       THEN << [name |-> name, pct |-> Max2(Head(entries).pct, pct)] >> \o Tail(entries)
       ELSE << Head(entries) >> \o mapAdd_max(Tail(entries), name, pct)

RECURSIVE mapAdd(_, _, _)
mapAdd(entries, name, pct) ==
  IF entries = << >> THEN << [name |-> name, pct |-> pct] >>
  ELSE IF Head(entries).name = name
       THEN << [name |-> name, pct |-> Head(entries).pct + pct] >> \o Tail(entries)
       ELSE << Head(entries) >> \o mapAdd(Tail(entries), name, pct)

RECURSIVE combineFrom(_, _)
combineFrom(pairs, entries) ==
  IF pairs = << >> THEN entries
  ELSE LET t == Head(pairs)
           name == normalizeTerpName(t.name)
       IN IF name = "" THEN combineFrom(Tail(pairs), entries)
          ELSE IF t.pct = NaN \/ t.pct = Null \/ t.pct <= 0 THEN combineFrom(Tail(pairs), entries)
          ELSE combineFrom(Tail(pairs), mapAdd(entries, name, t.pct))

(* getTopTerpenes(terpArray, limit) *)
getTopTerpenes(terpArray, limit) ==
  LET sorted == sortByPctDesc(combineFrom(terpArray, << >>))
  IN SubSeq(sorted, 1, Min2(limit, Len(sorted)))

getTop6Terpenes(terpArray) == getTopTerpenes(terpArray, 6)

(***************************************************************************)
(* src/store/mmetStore.js: COA text parsing                                *)
(*                                                                         *)
(* A COA text is modelled by what the extraction patterns can find in it:  *)
(*   blank         TRUE when the text is empty after trim                  *)
(*   productName   content of a "Product Name:" label, NullStr if none     *)
(*   cultivar      content of a "Cultivar:" label, NullStr if none         *)
(*   haze          a "HAZE ... (I|H|S) ... g" product line, NullStr if none *)
(*   sampleMatrix  content of a "Sample Matrix:" label, NullStr if none    *)
(*   formLabel     content of a "Form:" label, NullStr if none             *)
(*   keywords      the form keywords occurring anywhere in the text        *)
(*   firstLine     the first non-empty line                                *)
(*   totalTHC      number after "Total THC ... %": mills, Null when there  *)
(*                 is no such label, NaN when its digits are not a number  *)
(*   thca, d9      component percentages, Null when not listed             *)
(*   totalTerpenes [kind, v]: "pct" (label then NN%), "mgg" (mg/g),        *)
(*                 "bare" (no unit; v in thousandths), "none"              *)
(*   terpLines     the lines of the terpene section: [name, pct, sign],    *)
(*                 sign = TRUE when the number is followed by "%"          *)
(***************************************************************************)
(* toNumber of the digits captured by a pattern: null when not finite *)
toNumber(v) == IF v = Null \/ v = NaN THEN Null ELSE v

firstNonEmptyLine(text) ==
  IF text.blank \/ text.firstLine = "" THEN "Unknown Product" ELSE text.firstLine

(* a product name is a list of strings: the cultivar form is               *)
(* `${cultivar} ${sample matrix}`                                           *)
extractProductName(text) ==
  IF text.productName # NullStr THEN << text.productName >>
  ELSE IF text.cultivar # NullStr
       THEN IF text.sampleMatrix # NullStr THEN << text.cultivar, text.sampleMatrix >>
            ELSE << text.cultivar >>
  ELSE IF text.haze # NullStr THEN << text.haze >>
  ELSE << firstNonEmptyLine(text) >>

formTypes ==
  << "Live Badder", "Live Rosin", "Live Sugar", "Live Resin", "Live Sauce", "Diamonds",
     "Flower", "Cart", "Vape", "Wax", "Jam", "Extract", "Crumble" >>

extractForm(text) ==
  IF text.sampleMatrix # NullStr THEN text.sampleMatrix
  ELSE IF text.formLabel # NullStr THEN text.formLabel
  ELSE LET hits == {i \in 1..Len(formTypes) : formTypes[i] \in text.keywords}
       IN IF hits = {} THEN NullStr
          ELSE formTypes[CHOOSE i \in hits : \A j \in hits : i <= j]

extractTotalTHC(text) ==
  IF text.totalTHC # Null THEN toNumber(text.totalTHC)
  ELSE LET thca == toNumber(text.thca)
           d9 == toNumber(text.d9)
       IN IF thca # Null \/ d9 # Null
          THEN LET total1000 == 1000 * (IF d9 = Null THEN 0 ELSE d9)
                                + 877 * (IF thca = Null THEN 0 ELSE thca)
               IN IF total1000 > 0 THEN roundPct(total1000, 1000) ELSE Null
          ELSE Null

extractTotalTerpenes(text) ==
  LET k == text.totalTerpenes.kind
      v == toNumber(text.totalTerpenes.v)
  IN CASE k = "pct" -> v
       [] k = "mgg" -> roundPct(IF v = Null THEN 0 ELSE v, 10)
       [] k = "bare" ->
            IF v = Null THEN Null
            ELSE IF v > 300000 THEN roundPct(v, 100)
            ELSE IF v > 30000 THEN roundPct(v, 10)
            ELSE IF v > 0 THEN roundPct(v, 1)
            ELSE Null
       [] OTHER -> Null

(* name.toLowerCase().replace(/[^a-z]/g, "") *)
seenKey(name) ==
  CASE name \in {"Myrcene", "myrcene"} -> "myrcene"
    [] name = "beta-Myrcene" -> "betamyrcene"
    [] name = "Limonene" -> "limonene"
    [] name = "D-Limonene" -> "dlimonene"
    [] name = "beta caryophyllene" -> "betacaryophyllene"
    [] name = "Caryophyllene" -> "caryophyllene"
    [] name = "Linalool" -> "linalool"
    [] name = "Humulene" -> "humulene"
    [] name = "Bisabolol" -> "bisabolol"
    [] name = "Pinene" -> "pinene"
    [] name = "Ocimenes" -> "ocimenes"
    [] name = "Terpineol" -> "terpineol"
    [] name = "gamma-Terpineol" -> "gammaterpineol"
    [] name = "Terpinolene" -> "terpinolene"
    [] name = "Guaiol" -> "guaiol"
    [] name = "Total" -> "total"
    [] name = "trans-Nerolidol" -> "transnerolidol"
    [] name = "cis-Ocimenes" -> "cisocimenes"
    [] OTHER -> name

(* The name patterns only accept ASCII letters, digits, "-" and spaces and  *)
(* must start with a letter, so a Greek prefix and its hyphen are never     *)
(* part of a captured name.                                                 *)
GreekLed(name) ==
  name \in {"[beta]-Myrcene", "[beta]-Caryophyllene", "[alpha]-Humulene", "[alpha]-Bisabolol",
            "[alpha]-Pinene", "[beta]-Pinene"}

asciiTail(name) ==
  CASE name = "[beta]-Myrcene" -> "Myrcene"
    [] name = "[beta]-Caryophyllene" -> "Caryophyllene"
    [] name = "[alpha]-Humulene" -> "Humulene"
    [] name = "[alpha]-Bisabolol" -> "Bisabolol"
    [] name \in {"[alpha]-Pinene", "[beta]-Pinene"} -> "Pinene"
    [] OTHER -> name

(* line.match(/Analyte|Result|Top Ten|Total Terpenes|SUMMARY/i) *)
skippedLine(line) == line.name \in {"Analyte", "Result", "Total Terpenes"}

(* pct > 0 && pct < 50 *)
pctPlausible(pct) == pct > 0 /\ pct < 50000

RECURSIVE extractPairsFrom(_, _, _)
extractPairsFrom(lines, pairs, seen) ==
  IF lines = << >> THEN pairs
  ELSE LET line == Head(lines)
           rest == Tail(lines)
           \* pattern 1: name at line start, decimal number, no percent sign
           m1 == ~line.sign /\ ~GreekLed(line.name)
           \* pattern 2: name, decimal number, percent sign, anywhere in the line
           m2 == line.sign
           name == asciiTail(line.name)
           key == seenKey(name)
           ok == pctPlausible(line.pct) /\ key \notin seen
       IN IF skippedLine(line) THEN extractPairsFrom(rest, pairs, seen)
          ELSE IF (m1 \/ m2) /\ ok
               THEN extractPairsFrom(rest, Append(pairs, [name |-> name, pct |-> line.pct]),
                                     seen \cup {key})
               ELSE extractPairsFrom(rest, pairs, seen)

extractTerpenePairs(text) == extractPairsFrom(text.terpLines, << >>, {})

RECURSIVE roundAll(_)
roundAll(entries) ==
  IF entries = << >> THEN << >>
  ELSE << [name |-> Head(entries).name, pct |-> roundPct(Head(entries).pct, 1)] >>
       \o roundAll(Tail(entries))

normalizeAndCombineTerps(pairs) == sortByPctDesc(roundAll(combineFrom(pairs, << >>)))

NoProduct == << >>

(* the same without the THC requirement *)
parseCoaTextToProduct_thcOptional(text, id) ==
  IF text.blank THEN NoProduct
  ELSE << [id |-> id, name |-> extractProductName(text), form |-> extractForm(text),
           metrics |-> [totalTHC |-> extractTotalTHC(text),
                        totalTerpenes |-> extractTotalTerpenes(text)],
           terpenes |-> normalizeAndCombineTerps(extractTerpenePairs(text)),
           top6 |-> getTop6Terpenes(normalizeAndCombineTerps(extractTerpenePairs(text)))] >>

(* parseCoaTextToProduct: << >> for null, else << product >>.  The id is    *)
(* the fresh uuid handed in by the caller.                                  *)
parseCoaTextToProduct(text, id) ==
  IF text.blank THEN NoProduct
  ELSE LET name == extractProductName(text)
           form == extractForm(text)
           totalTHC == extractTotalTHC(text)
           totalTerpenes == extractTotalTerpenes(text)
           rawPairs == extractTerpenePairs(text)
           normalizedTerpenes == normalizeAndCombineTerps(rawPairs)
       IN IF totalTHC = Null \/ totalTHC = 0 THEN NoProduct
          ELSE << [id |-> id, name |-> name, form |-> form,
                   metrics |-> [totalTHC |-> totalTHC, totalTerpenes |-> totalTerpenes],
                   terpenes |-> normalizedTerpenes,
                   top6 |-> getTop6Terpenes(normalizedTerpenes)] >>

(***************************************************************************)
(* State                                                                   *)
(***************************************************************************)
VARIABLES
  products,     \* store: list of Product records, newest first
  sessionLog,   \* store: list of session entries, newest first
  profileName,  \* store
  lastError,    \* store: "" for null, else the message
  nextId,       \* the next value uuid() returns (ids are 1, 2, 3, ...)
  batches,      \* the handleCoaFiles calls in flight, by call slot
  ret,          \* what the last synchronous store call returned
  exported,     \* << >> or << [doc, from] >>: the last exportProfileJson output
  input,        \* argument of the pure function under evaluation
  output        \* << >> before the call, << result >> after it

storeVars == << products, sessionLog, profileName, lastError, nextId, batches, ret, exported >>
vars == << products, sessionLog, profileName, lastError, nextId, batches, ret, exported,
           input, output >>

BatchIds == {1}

IdleBatch == [status |-> "idle", files |-> << >>, i |-> 0, added |-> 0, errors |-> << >>]

NoRet == [op |-> "", result |-> "", n |-> 0]

StoreInit ==
  /\ products = << >>
  /\ sessionLog = << >>
  /\ profileName = "Default"
  /\ lastError = ""
  /\ nextId = 1
  /\ batches = [b \in BatchIds |-> IdleBatch]
  /\ ret = NoRet
  /\ exported = << >>

SeqsUpTo(S, n) == UNION {[1..k -> S] : k \in 0..n}

(***************************************************************************)
(* src/components/ManualInput.jsx: handleSubmit builds the product that    *)
(* App.jsx hands to addProduct.  A form submission is [name, form, thc,    *)
(* totalTerpenes, lines]; thc and totalTerpenes are parseFloat results     *)
(* (NaN when the field is not a number) and each line is the [name, pct]   *)
(* its pattern captured, pct = parseFloat of the captured digits and dots. *)
(***************************************************************************)
(* parseFloat(x) || 0 *)
orZero(v) == IF v = NaN \/ v = Null THEN 0 ELSE v

manualProduct(form) ==
  [id |-> Null, name |-> << form.name >>, form |-> form.form,
   metrics |-> [totalTHC |-> orZero(form.thc), totalTerpenes |-> orZero(form.totalTerpenes)],
   terpenes |-> form.lines,
   top6 |-> SubSeq(form.lines, 1, Min2(6, Len(form.lines)))]

(***************************************************************************)
(* src/store/mmetStore.js: the store                                       *)
(***************************************************************************)
MaxProducts == 2
MaxSessions == 1
MaxId == 3
MaxFiles == 2

Ret(op, result, n) == [op |-> op, result |-> result, n |-> n]

setProfileName(name) ==
  /\ profileName' = (IF name = NullStr \/ name = "" THEN "Default" ELSE name)
  /\ ret' = Ret("setProfileName", "", 0)
  /\ UNCHANGED << products, sessionLog, lastError, nextId, batches, exported >>

(* parseCoaText(coaText): returns null or [product] *)
parseCoaText(text) ==
  LET product == parseCoaTextToProduct(text, nextId)
  IN /\ IF product = NoProduct
        THEN /\ ret' = Ret("parseCoaText", "null", 0)
             /\ UNCHANGED << products, lastError, nextId >>
        ELSE /\ products' = product \o products
             /\ lastError' = ""
             /\ nextId' = nextId + 1
             /\ ret' = Ret("parseCoaText", "products", 1)
     /\ UNCHANGED << sessionLog, profileName, batches, exported >>

(* an addProduct whose set() replaces the list instead of extending it *)
addProduct_overwrite(product) ==
  LET fresh == product.id = Null
      newProduct == [product EXCEPT !.id = IF fresh THEN nextId ELSE product.id]
  IN /\ products' = << newProduct >>
     /\ lastError' = ""
     /\ nextId' = (IF fresh THEN nextId + 1 ELSE nextId)
     /\ ret' = Ret("addProduct", "product", newProduct.id)
     /\ UNCHANGED << sessionLog, profileName, batches, exported >>

(* addProduct(product): id: product.id || uuid() *)
addProduct(product) ==
  LET fresh == product.id = Null
      newProduct == [product EXCEPT !.id = IF fresh THEN nextId ELSE product.id]
  IN /\ products' = << newProduct >> \o products
     /\ lastError' = ""
     /\ nextId' = (IF fresh THEN nextId + 1 ELSE nextId)
     /\ ret' = Ret("addProduct", "product", newProduct.id)
     /\ UNCHANGED << sessionLog, profileName, batches, exported >>

(* a removal that leaves the session log alone *)
removeProduct_keepSessions(productId) ==
  /\ products' = SelectSeq(products, LAMBDA p : p.id # productId)
  /\ lastError' = ""
  /\ ret' = Ret("removeProduct", "", productId)
  /\ UNCHANGED << sessionLog, profileName, nextId, batches, exported >>

removeProduct(productId) ==
  /\ products' = SelectSeq(products, LAMBDA p : p.id # productId)
  /\ sessionLog' = SelectSeq(sessionLog, LAMBDA e : e.productId # productId)
  /\ lastError' = ""
  /\ ret' = Ret("removeProduct", "", productId)
  /\ UNCHANGED << profileName, nextId, batches, exported >>

clearProducts ==
  /\ products' = << >>
  /\ sessionLog' = << >>
  /\ lastError' = ""
  /\ ret' = Ret("clearProducts", "", 0)
  /\ UNCHANGED << profileName, nextId, batches, exported >>

(* renameProduct(productId, newName): newName already trimmed; "" is empty *)
renameProduct(productId, newName) ==
  /\ IF productId = Null \/ newName = "" \/ newName = NullStr
     THEN UNCHANGED << products, lastError >>
     ELSE /\ products' = [i \in DOMAIN products |->
                              IF products[i].id = productId
                              THEN [products[i] EXCEPT !.name = << newName >>]
                              ELSE products[i]]
          /\ lastError' = ""
  /\ ret' = Ret("renameProduct", "", 0)
  /\ UNCHANGED << sessionLog, profileName, nextId, batches, exported >>

(* addSessionEntry({productId, actuals, notes}); actuals || {} is the       *)
(* record with every dimension missing                                      *)
addSessionEntry(productId, actuals, notes) ==
  /\ IF productId = Null
     THEN /\ lastError' = "addSessionEntry requires productId"
          /\ ret' = Ret("addSessionEntry", "false", 0)
          /\ UNCHANGED << sessionLog, nextId >>
     ELSE /\ sessionLog' = << [id |-> nextId, productId |-> productId,
                                actuals |-> actuals, notes |-> notes] >> \o sessionLog
          /\ lastError' = ""
          /\ nextId' = nextId + 1
          /\ ret' = Ret("addSessionEntry", "true", 0)
  /\ UNCHANGED << products, profileName, batches, exported >>

removeSessionEntry(sessionId) ==
  /\ IF sessionId = Null
     THEN /\ ret' = Ret("removeSessionEntry", "false", 0)
          /\ UNCHANGED << sessionLog, lastError >>
     ELSE /\ sessionLog' = SelectSeq(sessionLog, LAMBDA e : e.id # sessionId)
          /\ lastError' = ""
          /\ ret' = Ret("removeSessionEntry", "true", sessionId)
  /\ UNCHANGED << products, profileName, nextId, batches, exported >>

removeSessionsForProduct(productId) ==
  /\ IF productId = Null
     THEN /\ ret' = Ret("removeSessionsForProduct", "false", 0)
          /\ UNCHANGED << sessionLog, lastError >>
     ELSE /\ sessionLog' = SelectSeq(sessionLog, LAMBDA e : e.productId # productId)
          /\ lastError' = ""
          /\ ret' = Ret("removeSessionsForProduct", "true", productId)
  /\ UNCHANGED << products, profileName, nextId, batches, exported >>

(* JSON.stringify writes NaN (and Infinity) as null; every other value of   *)
(* the store is written as it is.                                           *)
jsonNum(v) == IF v = NaN THEN Null ELSE v

jsonTerps(list) == [i \in DOMAIN list |-> [name |-> list[i].name, pct |-> jsonNum(list[i].pct)]]

jsonProduct(p) ==
  [p EXCEPT !.metrics = [totalTHC |-> jsonNum(p.metrics.totalTHC),
                         totalTerpenes |-> jsonNum(p.metrics.totalTerpenes)],
            !.terpenes = jsonTerps(p.terpenes),
            !.top6 = jsonTerps(p.top6)]

jsonEntry(e) == [e EXCEPT !.actuals = [d \in DimSet |-> jsonNum(e.actuals[d])]]

(* The document JSON.stringify(payload) denotes.  valid = FALSE is a string *)
(* that JSON.parse rejects; has* = FALSE is a field that is absent or not   *)
(* an array.                                                                *)
JSONstringify(payload) ==
  [valid |-> TRUE,
   profileName |-> payload.profileName,
   hasProducts |-> TRUE,
   products |-> [i \in DOMAIN payload.products |-> jsonProduct(payload.products[i])],
   hasSessionLog |-> TRUE,
   sessionLog |-> [i \in DOMAIN payload.sessionLog |-> jsonEntry(payload.sessionLog[i])]]

exportProfileJson ==
  LET payload == [profileName |-> profileName, products |-> products, sessionLog |-> sessionLog]
  IN /\ exported' = << [doc |-> JSONstringify(payload), from |-> payload] >>
     /\ ret' = Ret("exportProfileJson", "json", 0)
     /\ UNCHANGED << products, sessionLog, profileName, lastError, nextId, batches >>

(* an import whose failure path resets the profile *)
importProfileJson_resetOnError(doc, src) ==
  /\ IF doc.valid
     THEN /\ profileName' = (IF doc.profileName = NullStr THEN profileName ELSE doc.profileName)
          /\ products' = (IF doc.hasProducts THEN doc.products ELSE << >>)
          /\ sessionLog' = (IF doc.hasSessionLog THEN doc.sessionLog ELSE << >>)
          /\ lastError' = ""
          /\ ret' = Ret("importProfileJson", "ok", src)
     ELSE /\ lastError' = "Import failed"
          /\ ret' = Ret("importProfileJson", "error", src)
          /\ products' = << >>
          /\ sessionLog' = << >>
          /\ profileName' = "Default"
  /\ UNCHANGED << nextId, batches, exported >>

(* importProfileJson(input); src tells which document was passed *)
importProfileJson(doc, src) ==
  /\ IF doc.valid
     THEN /\ profileName' = (IF doc.profileName = NullStr THEN profileName ELSE doc.profileName)
          /\ products' = (IF doc.hasProducts THEN doc.products ELSE << >>)
          /\ sessionLog' = (IF doc.hasSessionLog THEN doc.sessionLog ELSE << >>)
          /\ lastError' = ""
          /\ ret' = Ret("importProfileJson", "ok", src)
     ELSE /\ lastError' = "Import failed"
          /\ ret' = Ret("importProfileJson", "error", src)
          /\ UNCHANGED << products, sessionLog, profileName >>
  /\ UNCHANGED << nextId, batches, exported >>

(* readFileAsText(file): << text >>, or << >> when it throws.  A file is    *)
(* [name, kind, readable, text]: kind "text" resolves to its text; kind     *)
(* "pdf" resolves to the text built from the parsed PDF, or throws when the *)
(* PDF cannot be parsed; any other kind throws "Unsupported file type".     *)
readFileAsText(file) ==
  IF file.kind = "text" THEN << file.text >>
  ELSE IF file.kind = "pdf" /\ file.readable THEN << file.text >>
  ELSE << >>

readError(file) ==
  IF file.kind = "pdf" THEN "PDF parsing failed" ELSE "Unsupported file type"

(* handleCoaFiles(files), the synchronous part of the call: an empty list   *)
(* returns at once, otherwise the first read is awaited.                    *)
handleCoaFilesCall(b, files) ==
  /\ batches[b].status = "idle"
  /\ batches' = [batches EXCEPT ![b] =
                    IF files = << >>
                    THEN [status |-> "done", files |-> files, i |-> 1, added |-> 0, errors |-> << >>]
                    ELSE [status |-> "running", files |-> files, i |-> 1, added |-> 0,
                          errors |-> << >>]]
  /\ UNCHANGED << products, sessionLog, profileName, lastError, nextId, ret, exported >>

(* handleCoaFiles, one loop iteration: the awaited read of files[i]         *)
(* settles and the body runs to the next await; after the last file the     *)
(* closing set({lastError}) and the return run in the same turn.            *)
handleCoaFilesStep(b) ==
  LET st == batches[b]
      f == st.files[st.i]
      read == readFileAsText(f)
      product == IF read = << >> THEN NoProduct ELSE parseCoaTextToProduct(read[1], nextId)
      errors2 == IF read = << >> THEN Append(st.errors, [file |-> f.name, error |-> readError(f)])
                 ELSE st.errors
      added2 == IF product = NoProduct THEN st.added ELSE st.added + 1
      last == st.i = Len(st.files)
  IN /\ st.status = "running"
     /\ products' = product \o products
     /\ nextId' = (IF product = NoProduct THEN nextId ELSE nextId + 1)
     /\ lastError' = (IF last THEN (IF errors2 = << >> THEN "" ELSE errors2[1].error)
                      ELSE IF product = NoProduct THEN lastError ELSE "")
     /\ batches' = [batches EXCEPT ![b] =
                       [status |-> IF last THEN "done" ELSE "running", files |-> st.files,
                        i |-> st.i + 1, added |-> added2, errors |-> errors2]]
     /\ UNCHANGED << sessionLog, profileName, ret, exported >>

(***************************************************************************)
(* Baseline engine on bounded inputs                                       *)
(***************************************************************************)
MaxTerps == 2

EngineTerpEntries ==
  { [name |-> "Myrcene", pct |-> 400], [name |-> "Myrcene", pct |-> 600],
    [name |-> "Limonene", pct |-> 1200], [name |-> "Terpinolene", pct |-> 400],
    [name |-> "[beta]-Caryophyllene", pct |-> 3000], [name |-> "Linalool", pct |-> NaN] }

FullTerpList ==
  << [name |-> "Caryophyllene", pct |-> 50000], [name |-> "Linalool", pct |-> 50000],
     [name |-> "D-Limonene", pct |-> 50000], [name |-> "[beta]-Myrcene", pct |-> 50000],
     [name |-> "[alpha]-Humulene", pct |-> 50000], [name |-> "[alpha]-Bisabolol", pct |-> 50000],
     [name |-> "Terpinolene", pct |-> 50000], [name |-> "[alpha]-Pinene", pct |-> 50000],
     [name |-> "Ocimenes", pct |-> 50000] >>

EngineThc == {Null, 0 - 1000, 0, 12000, 17500, 22000, 30000, 90000}
EngineTotalTerps == {NaN, 0, 2500, 12000}
EngineForms == {NullStr, "Flower", "Live Badder", "Crumble", "Cart", "Gummy", "Topical", "Salve"}

BaselineInputs ==
  [totalTHC : EngineThc, totalTerpenes : EngineTotalTerps, form : EngineForms,
   terpenes : SeqsUpTo(EngineTerpEntries, MaxTerps) \cup {FullTerpList}]

InitBaseline ==
  /\ StoreInit
  /\ input \in BaselineInputs
  /\ output = << >>

CalcBaseline ==
  /\ output = << >>
  /\ input \in BaselineInputs
  /\ output' = << calculateBaselineTraced(input, TRUE) >>
  /\ UNCHANGED << storeVars, input >>

NextBaseline == CalcBaseline

SpecBaseline == InitBaseline /\ [][NextBaseline]_vars

VecDims == {"head", "clarity", "sedation", "couch", "pain"}

In01(x) == x >= 0 /\ x <= Scale

BaselineDone == output # << >> /\ input \in BaselineInputs

(* C1: every effect dimension and anxietyRisk of calculateBaseline lies in *)
(* [0,1], in the result and after every intermediate step (THC base vector, *)
(* each terpene modifier block, both blends, intensity shaping, each        *)
(* anxiety rule, the myrcene couch boost).                                  *)
C1_AllStepsIn01 ==
  BaselineDone =>
    LET r == output[1]
    IN /\ \A d \in VecDims : In01(r[d])
       /\ In01(r.anxietyRisk)
       /\ \A i \in 1..Len(r.steps) : \A d \in VecDims : In01(r.steps[i][d])
       /\ \A i \in 1..Len(r.anxSteps) : In01(r.anxSteps[i])

(* C1 witness: a call in which the clamp is what keeps a value in range:    *)
(* extreme THC + edible gives 0.85 + 0.18 before the clamp, 1 after it.     *)
C1_Witness ==
  /\ BaselineDone
  /\ output[1].thcBand = "extreme"
  /\ output[1].formKey = "edible"
  /\ output[1].anxSteps[1] = Scale

(* C3: a product whose form is topical has head, clarity, sedation, couch   *)
(* and pain all equal to 0 in the calculateBaseline result.                 *)
C3_TopicalAllZero ==
  (BaselineDone /\ output[1].formKey = "topical") =>
    \A d \in VecDims : output[1][d] = 0

(***************************************************************************)
(* Scoring and personalization on a growing session log                    *)
(* (src/App.jsx: scoresById is recomputed whenever products or sessionLog  *)
(* change; personalized mode)                                              *)
(***************************************************************************)
MaxLog == 10

AllDims(v) == [d \in DimSet |-> v]

ScoringProduct(id, form, thc, totalTerps, terps) ==
  [id |-> id, name |-> << "Sample" >>, form |-> form,
   metrics |-> [totalTHC |-> thc, totalTerpenes |-> totalTerps],
   terpenes |-> terps, top6 |-> << >>]

(* the product lists a profile may hold: every list has ids 1, 2, 3 *)
ScoringProductLists ==
  { << ScoringProduct(1, "Live Badder", 74800, 5860,
         << [name |-> "caryophyllene", pct |-> 2140], [name |-> "limonene", pct |-> 1200],
            [name |-> "myrcene", pct |-> 600] >>),
       ScoringProduct(2, "Gummy", 90000, Null, << >>),
       ScoringProduct(3, NullStr, 18000, 0, << >>) >>,
    << ScoringProduct(1, "Flower", 22000, 2500,
         << [name |-> "myrcene", pct |-> 900], [name |-> "linalool", pct |-> 400] >>),
       ScoringProduct(2, "Cart", 85000, 12000,
         << [name |-> "terpinolene", pct |-> 4000], [name |-> "pinene", pct |-> 1500] >>),
       ScoringProduct(3, "Topical", 30000, 1000, << [name |-> "myrcene", pct |-> 600] >>) >>,
    << ScoringProduct(1, "Crumble", 68000, 3000,
         << [name |-> "limonene", pct |-> 1500], [name |-> "humulene", pct |-> 500] >>),
       ScoringProduct(2, "Flower", 12000, 800, << [name |-> "ocimene", pct |-> 300] >>),
       ScoringProduct(3, "Live Resin", 79000, 9000, FullTerpList) >>,
    << ScoringProduct(1, "Salve", 0, NaN, << [name |-> "linalool", pct |-> NaN] >>),
       ScoringProduct(2, "Diamonds", 99000, 500, << [name |-> "bisabolol", pct |-> 200] >>),
       ScoringProduct(3, "Flower", 17500, 2000,
         << [name |-> "caryophyllene", pct |-> 700], [name |-> "myrcene", pct |-> 400] >>) >> }

(* what a session may report: [productId, actuals]; sliders step by 0.1 *)
ScoringEntries ==
  { [productId |-> 1, actuals |-> AllDims(500)],
    [productId |-> 1, actuals |-> [AllDims(Null) EXCEPT !["pain"] = 340, !["head"] = 50]],
    [productId |-> 2, actuals |-> [AllDims(0) EXCEPT !["anxiety"] = Null]],
    [productId |-> 9, actuals |-> AllDims(250)] }

(* scoresById for the current products, with the calibration behind it.    *)
(* calculatePersonalizedScores derives the same calibration for every       *)
(* product of one render (it does not read productId), so it is computed    *)
(* once here and applied per product.                                       *)
scoreEntry(baseline, log, calibration) ==
  [baseline |-> baseline,
   personalized |-> IF Len(log) = 0 THEN baseline ELSE applyCalibration(baseline, calibration)]

RECURSIVE scoresOf(_, _, _)
scoresOf(prods, log, calibration) ==
  IF prods = << >> THEN << >>
  ELSE << Only({ scoreEntry(baseline, log, calibration) :
                   baseline \in {calculateBaselineScores(Head(prods))} }) >>
       \o scoresOf(Tail(prods), log, calibration)

scoresById(prods, log) ==
  Only({ [scores |-> scoresOf(prods, log, calibration), calibration |-> calibration] :
           calibration \in {calculateUserCalibration(log, prods)} })

InitScoring ==
  /\ StoreInit
  /\ input \in {es \in SUBSET ScoringEntries : Cardinality(es) = 2}
  /\ output = << >>

(* the products arrive (profile import), scores are computed for the first time *)
LoadProducts ==
  /\ output = << >>
  /\ input \in SUBSET ScoringEntries
  /\ products' \in ScoringProductLists
  /\ nextId' = 10
  /\ output' = << scoresById(products', sessionLog) >>
  /\ UNCHANGED << sessionLog, profileName, lastError, batches, ret, exported, input >>

(* the user logs a session; scores are recomputed *)
LogSession ==
  /\ output # << >>
  /\ input \in SUBSET ScoringEntries
  /\ Len(sessionLog) < MaxLog
  /\ \E e \in input : addSessionEntry(e.productId, e.actuals, "")
  /\ output' = << scoresById(products', sessionLog') >>
  /\ UNCHANGED input

NextScoring == LoadProducts \/ LogSession

SpecScoring == InitScoring /\ [][NextScoring]_vars

ScoringDone == output # << >> /\ input \in SUBSET ScoringEntries

IsHalfStep(v) == v >= 0 /\ v <= 500 /\ v % 50 = 0

(* C2: each of the seven values of calculateBaselineScores is a multiple of *)
(* 0.5 within [0,5], and so is each value calculatePersonalizedScores       *)
(* returns for such a baseline, whatever the session log.                   *)
C2_ScoresOnHalfGrid ==
  ScoringDone =>
    \A i \in DOMAIN output[1].scores : \A d \in DimSet :
      /\ IsHalfStep(output[1].scores[i].baseline[d])
      /\ IsHalfStep(output[1].scores[i].personalized[d])

(* C2 witness: a personalized value that the calibration moved off the      *)
(* baseline and that still sits on the 0.5 grid                             *)
C2_Witness ==
  /\ ScoringDone
  /\ \E i \in DOMAIN output[1].scores : \E d \in DimSet :
        /\ output[1].scores[i].personalized[d] # output[1].scores[i].baseline[d]
        /\ IsHalfStep(output[1].scores[i].personalized[d])
        /\ output[1].calibration[d].adjSum % 50 # 0

Abs(x) == IF x < 0 THEN 0 - x ELSE x

(* the session-log entries that count for dimension d: a numeric actual and *)
(* a product that is in the product list                                    *)
Qualifying(d) ==
  {j \in 1..Len(sessionLog) :
     /\ sessionLog[j].actuals[d] # Null
     /\ \E k \in 1..Len(products) : products[k].id = sessionLog[j].productId}

(* actual minus the baseline prediction for the entry's product *)
DeltaOf(d, j) ==
  LET k == CHOOSE k \in 1..Len(products) : products[k].id = sessionLog[j].productId
  IN sessionLog[j].actuals[d] - output[1].scores[k].baseline[d]

RECURSIVE SumDeltas(_, _)
SumDeltas(d, S) ==
  IF S = {} THEN 0
  ELSE LET j == CHOOSE j \in S : TRUE IN DeltaOf(d, j) + SumDeltas(d, S \ {j})

SampleCount(d) == Cardinality(Qualifying(d))

(* C4: per dimension, with n the number of qualifying entries, the          *)
(* calibration has dataPoints n and confidence min(n/10, 0.8); the          *)
(* personalized value is the baseline when n = 0 and otherwise a multiple   *)
(* of 0.5 within 0.25 of clamp(baseline + confidence * mean delta, 0, 5),   *)
(* the mean taken over exactly the qualifying entries.                      *)
C4_PersonalizedIsRoundedBlend ==
  ScoringDone =>
    \A d \in DimSet :
      LET n == SampleCount(d)
          sum == SumDeltas(d, Qualifying(d))
          c == Min2(n * 10, 80)
          cal == output[1].calibration[d]
      IN /\ cal.dataPoints = n
         /\ cal.confidence = c
         /\ \A i \in DOMAIN output[1].scores :
              LET b == output[1].scores[i].baseline[d]
                  r == output[1].scores[i].personalized[d]
                  D == 100 * n
                  X == D * b + sum * c
                  CX == Max2(0, Min2(500 * D, X))
              IN IF n = 0 THEN r = b /\ cal.confidence = 0
                 ELSE r % 50 = 0 /\ Abs(r * D - CX) <= 25 * D

(* C4 witness: one render in which one dimension has no qualifying entry    *)
(* although the log is not empty (missing actual or unknown product) and    *)
(* another has a non-zero mean delta that moved a personalized value        *)
C4_Witness ==
  /\ ScoringDone
  /\ Len(sessionLog) > 0
  /\ \E d \in DimSet : SampleCount(d) = 0 /\ output[1].calibration[d].confidence = 0
  /\ \E d \in DimSet : \E i \in DOMAIN output[1].scores :
        /\ SampleCount(d) > 0
        /\ SampleCount(d) < Len(sessionLog)
        /\ SumDeltas(d, Qualifying(d)) # 0
        /\ output[1].scores[i].personalized[d] # output[1].scores[i].baseline[d]

ConfidenceFacts ==
  ScoringDone =>
    \A d \in DimSet :
      LET n == SampleCount(d)
          conf == output[1].calibration[d].confidence
      IN /\ conf <= 80
         /\ n = 0 => conf = 0
         /\ n = 5 => conf = 50
         /\ n = 10 => conf = 80
         /\ \A e \in DimSet :
              n <= SampleCount(e) => conf <= output[1].calibration[e].confidence

ConfidenceNeverDrops ==
  (ScoringDone /\ ScoringDone') =>
    \A d \in DimSet :
      output'[1].calibration[d].confidence >= output[1].calibration[d].confidence

(* C5: a dimension's confidence never exceeds 0.8, is 0 for 0 samples, 0.5  *)
(* for 5 and 0.8 for 10, is no lower for a dimension with at least as many  *)
(* samples, and is never lowered by appending a session entry.              *)
C5_ConfidenceMonotoneCapped == []ConfidenceFacts /\ [][ConfidenceNeverDrops]_vars

(* C5 witness: a log that gives one dimension 10 samples (confidence 0.8)   *)
(* and another dimension 5 samples (confidence 0.5)                         *)
C5_Witness ==
  /\ ScoringDone
  /\ \E d, e \in DimSet :
        /\ SampleCount(d) = 10 /\ output[1].calibration[d].confidence = 80
        /\ SampleCount(e) = 5 /\ output[1].calibration[e].confidence = 50

(* C6 as stated: for a dimension with non-zero mean delta, the personalized *)
(* score differs from the baseline by strictly less than |mean delta|.      *)
C6_ShiftBelowMeanDelta ==
  ScoringDone =>
    \A d \in DimSet : \A i \in DOMAIN output[1].scores :
      LET n == SampleCount(d)
          sum == SumDeltas(d, Qualifying(d))
      IN sum # 0 =>
           Abs(output[1].scores[i].personalized[d] - output[1].scores[i].baseline[d]) * n
             < Abs(sum)

(* C6 amended: the personalized score differs from the baseline by at most  *)
(* 0.8 * |mean delta| + 0.25 (the rounding to the 0.5 grid can add up to    *)
(* 0.25, so the difference can reach or exceed a small |mean delta|).       *)
C6_ShiftWithinCeilingPlusRounding ==
  ScoringDone =>
    \A d \in DimSet : \A i \in DOMAIN output[1].scores :
      LET n == SampleCount(d)
          sum == SumDeltas(d, Qualifying(d))
      IN sum # 0 =>
           Abs(output[1].scores[i].personalized[d] - output[1].scores[i].baseline[d]) * 100 * n
             <= 80 * Abs(sum) + 25 * 100 * n

(* C6 witness: a non-zero mean delta and a personalized score that moved    *)
(* by at least |mean delta|                                                 *)
C6_Witness ==
  /\ ScoringDone
  /\ \E d \in DimSet : \E i \in DOMAIN output[1].scores :
        LET n == SampleCount(d)
            sum == SumDeltas(d, Qualifying(d))
        IN /\ sum # 0
           /\ Abs(output[1].scores[i].personalized[d] - output[1].scores[i].baseline[d]) * n
                >= Abs(sum)

(***************************************************************************)
(* COA parsing on bounded texts (App: "Load sample products" and           *)
(* "Parse COAs" both call the store's parseCoaText)                        *)
(***************************************************************************)
BlankText ==
  [blank |-> TRUE, productName |-> NullStr, cultivar |-> NullStr, haze |-> NullStr,
   sampleMatrix |-> NullStr, formLabel |-> NullStr, keywords |-> {}, firstLine |-> "",
   totalTHC |-> Null, thca |-> Null, d9 |-> Null,
   totalTerpenes |-> [kind |-> "none", v |-> Null], terpLines |-> << >>]

TextTerpLines ==
  { << >>,
    << [name |-> "Analyte", pct |-> 1000, sign |-> FALSE],
       [name |-> "[beta]-Myrcene", pct |-> 600, sign |-> TRUE],
       [name |-> "Limonene", pct |-> 1204, sign |-> FALSE],
       [name |-> "myrcene", pct |-> 300, sign |-> TRUE] >>,
    << [name |-> "Linalool", pct |-> 50000, sign |-> TRUE],
       [name |-> "Guaiol", pct |-> 0, sign |-> FALSE],
       [name |-> "Terpinolene", pct |-> 62000, sign |-> TRUE] >> }

NonBlankTexts ==
  [blank : {FALSE},
   productName : {NullStr, "Blue Dream"},
   cultivar : {NullStr, "Gelato"},
   haze : {NullStr, "HAZE Sherb (H) 3.5g"},
   sampleMatrix : {NullStr, "Flower"},
   formLabel : {NullStr, "Gummy"},
   keywords : {{}, {"Wax", "Live Resin"}},
   firstLine : {"Certificate of Analysis"},
   totalTHC : {Null, NaN, 22500},
   thca : {Null, 25000},
   d9 : {Null, 0},
   totalTerpenes : {[kind |-> "none", v |-> Null], [kind |-> "pct", v |-> 2500],
                    [kind |-> "mgg", v |-> 25000]},
   terpLines : TextTerpLines]

CoaTexts == {BlankText} \cup NonBlankTexts

(* one of the built-in sample COAs *)
SampleCoa ==
  [blank |-> FALSE, productName |-> "Sample Kush", cultivar |-> NullStr, haze |-> NullStr,
   sampleMatrix |-> NullStr, formLabel |-> "Flower", keywords |-> {"Flower"},
   firstLine |-> "Product Name: Sample Kush",
   totalTHC |-> 24100, thca |-> Null, d9 |-> Null,
   totalTerpenes |-> [kind |-> "pct", v |-> 2100],
   terpLines |-> << [name |-> "Caryophyllene", pct |-> 800, sign |-> TRUE] >>]

InitParse ==
  /\ StoreInit
  /\ input \in CoaTexts
  /\ output = << >>

(* onLoadSampleProducts *)
LoadSample ==
  /\ output = << >>
  /\ input \in CoaTexts
  /\ products = << >>
  /\ parseCoaText(SampleCoa)
  /\ UNCHANGED << input, output >>

(* onParseCoasAndScore with one pasted block; output keeps the products     *)
(* before the call and what parseCoaTextToProduct returned                  *)
ParseCoa ==
  /\ output = << >>
  /\ input \in CoaTexts
  /\ parseCoaText(input)
  /\ output' = << [before |-> products, result |-> parseCoaTextToProduct(input, nextId)] >>
  /\ UNCHANGED input

NextParse == LoadSample \/ ParseCoa

SpecParse == InitParse /\ [][NextParse]_vars

ParseDone == output # << >> /\ input \in CoaTexts

(* neither a usable THC percent nor any terpene can be extracted *)
Unparseable(text) ==
  \/ text.blank
  \/ /\ extractTotalTHC(text) \in {Null, 0}
     /\ extractTerpenePairs(text) = << >>

MissingFields(text) ==
  {f \in {"form", "totalTHC", "totalTerpenes"} :
     CASE f = "form" -> extractForm(text) = NullStr
       [] f = "totalTHC" -> extractTotalTHC(text) \in {Null, 0}
       [] f = "totalTerpenes" -> extractTotalTerpenes(text) = Null}

(* C10 as stated: when exactly one field of a non-empty text cannot be      *)
(* recovered, parsing still yields a Product whose missing field is null    *)
(* and whose other fields carry the extracted values.                       *)
C10_SingleMissingFieldTolerated ==
  (ParseDone /\ ~input.blank /\ Cardinality(MissingFields(input)) = 1) =>
    /\ output[1].result # NoProduct
    /\ output[1].result[1].name = extractProductName(input)
    /\ output[1].result[1].form = extractForm(input)
    /\ output[1].result[1].metrics.totalTHC = extractTotalTHC(input)
    /\ output[1].result[1].metrics.totalTerpenes = extractTotalTerpenes(input)

(***************************************************************************)
(* The store under its callers (App.jsx, COAUploader.jsx, ManualInput.jsx, *)
(* SessionLog.jsx): any handler may run whenever no other one is running;  *)
(* a handleCoaFiles call yields at every awaited read.                     *)
(***************************************************************************)
ProfileNames == {"", "Sam"}

NoThcText ==
  [SampleCoa EXCEPT !.productName = "No Potency", !.totalTHC = Null,
                    !.firstLine = "Product Name: No Potency"]

StoreTexts == {SampleCoa, NoThcText, BlankText}

(* what ManualInput's form can submit: the second has a terpene line whose  *)
(* number is a lone "." and read as NaN, the third names one terpene on two *)
(* lines                                                                    *)
ManualForms ==
  { [name |-> "Manual", form |-> "Flower", thc |-> 20000, totalTerpenes |-> NaN,
     lines |-> << [name |-> "Myrcene", pct |-> 500] >>],
    [name |-> "Manual", form |-> "Flower", thc |-> 20000, totalTerpenes |-> NaN,
     lines |-> << [name |-> "Myrcene", pct |-> 500], [name |-> "myrcene", pct |-> 300] >>],
    [name |-> "Manual", form |-> "Flower", thc |-> 20000, totalTerpenes |-> NaN,
     lines |-> << [name |-> "Myrcene", pct |-> NaN] >>] }

(* the text readFileAsText builds from a parsed PDF: display name, "Form:", *)
(* then the totals and terpenes that were found                             *)
PdfText ==
  [blank |-> FALSE, productName |-> NullStr, cultivar |-> NullStr, haze |-> NullStr,
   sampleMatrix |-> NullStr, formLabel |-> "Concentrate", keywords |-> {},
   firstLine |-> "Sample Kush",
   totalTHC |-> 78300, thca |-> Null, d9 |-> Null,
   totalTerpenes |-> [kind |-> "pct", v |-> 4120],
   terpLines |-> << [name |-> "Limonene", pct |-> 1500, sign |-> TRUE] >>]

CoaFiles ==
  { [name |-> "good.pdf", kind |-> "pdf", readable |-> TRUE, text |-> PdfText],
    [name |-> "blank.txt", kind |-> "text", readable |-> TRUE, text |-> BlankText],
    [name |-> "broken.pdf", kind |-> "pdf", readable |-> FALSE, text |-> BlankText],
    [name |-> "scan.png", kind |-> "image", readable |-> FALSE, text |-> BlankText] }

SessionActuals == {AllDims(Null), AllDims(250)}

(* documents that did not come from exportProfileJson: not JSON at all, and *)
(* JSON without the three fields                                            *)
ForeignDocs ==
  { [valid |-> FALSE, profileName |-> NullStr, hasProducts |-> FALSE, products |-> << >>,
     hasSessionLog |-> FALSE, sessionLog |-> << >>],
    [valid |-> TRUE, profileName |-> NullStr, hasProducts |-> FALSE, products |-> << >>,
     hasSessionLog |-> FALSE, sessionLog |-> << >>] }

Init ==
  /\ StoreInit
  /\ input = << >>
  /\ output = << >>

Room == Len(products) < MaxProducts /\ nextId <= MaxId

IoUnchanged == UNCHANGED << input, output >>

DoSetProfileName == IoUnchanged /\ \E name \in ProfileNames : setProfileName(name)

DoParseCoaText == IoUnchanged /\ Room /\ \E text \in StoreTexts : parseCoaText(text)

DoAddProduct ==
  IoUnchanged /\ Room /\ \E form \in ManualForms : addProduct(manualProduct(form))

DoRemoveProduct == IoUnchanged /\ \E i \in DOMAIN products : removeProduct(products[i].id)

DoClearProducts == IoUnchanged /\ clearProducts

DoRenameProduct ==
  /\ IoUnchanged
  /\ \E i \in DOMAIN products : \E newName \in {"", "Renamed"} :
       renameProduct(products[i].id, newName)

DoAddSessionEntry ==
  /\ IoUnchanged
  /\ Len(sessionLog) < MaxSessions
  /\ nextId <= MaxId
  /\ \E productId \in {Null} \cup {products[i].id : i \in DOMAIN products} :
       \E actuals \in SessionActuals : addSessionEntry(productId, actuals, "")

DoRemoveSessionEntry ==
  /\ IoUnchanged
  /\ \E sessionId \in {Null} \cup {sessionLog[i].id : i \in DOMAIN sessionLog} :
       removeSessionEntry(sessionId)

DoRemoveSessionsForProduct ==
  /\ IoUnchanged
  /\ \E productId \in {Null} \cup {sessionLog[i].productId : i \in DOMAIN sessionLog} :
       removeSessionsForProduct(productId)

(* the handlers every page of the app can reach *)
StoreStep ==
  \/ DoSetProfileName
  \/ DoParseCoaText
  \/ DoAddProduct
  \/ DoRemoveProduct
  \/ DoClearProducts
  \/ DoRenameProduct
  \/ DoAddSessionEntry
  \/ DoRemoveSessionEntry
  \/ DoRemoveSessionsForProduct

(* the profile is exported once *)
DoExportProfileJson == IoUnchanged /\ exported = << >> /\ exportProfileJson

ImportExported == IoUnchanged /\ exported # << >> /\ importProfileJson(exported[1].doc, 1)

ImportForeign == IoUnchanged /\ \E doc \in ForeignDocs : importProfileJson(doc, 0)

(* the store with profile export and import *)
Next == StoreStep \/ DoExportProfileJson \/ ImportExported \/ ImportForeign

Spec == Init /\ [][Next]_vars

(* the store with imports of documents written elsewhere *)
NextLibrary == StoreStep \/ ImportForeign

SpecLibrary == Init /\ [][NextLibrary]_vars

DoHandleCoaFiles ==
  /\ IoUnchanged
  /\ \E b \in BatchIds : \E files \in SeqsUpTo(CoaFiles, MaxFiles) : handleCoaFilesCall(b, files)

ReadSettles == IoUnchanged /\ Room /\ \E b \in BatchIds : handleCoaFilesStep(b)

(* the store with COA file uploads *)
NextUpload == StoreStep \/ DoHandleCoaFiles \/ ReadSettles

SpecUpload == Init /\ [][NextUpload]_vars

(* C7 as stated: importing what exportProfileJson returned in state S,      *)
(* after any store actions in between, succeeds and leaves sessionLog,      *)
(* products and profileName exactly as they were in S.                      *)
C7_ExportImportRoundTrip ==
  [][ImportExported =>
       /\ ret'.result = "ok"
       /\ products' = exported[1].from.products
       /\ sessionLog' = exported[1].from.sessionLog
       /\ profileName' = exported[1].from.profileName]_vars

BatchDone(b) == batches[b].status = "done"

(* C8 as stated: when a handleCoaFiles call returns, every item has been    *)
(* processed in order, and the result holds the count of products added and *)
(* one error entry for each item that was not added.                        *)
C8_EveryFailedItemListed ==
  \A b \in BatchIds :
    BatchDone(b) =>
      /\ batches[b].i = Len(batches[b].files) + 1
      /\ batches[b].added + Len(batches[b].errors) = Len(batches[b].files)

(* C11 as stated: every product in the store has at most one terpenes     *)
(* entry per canonical terpene name, and every terpene pct is a             *)
(* non-negative number.                                                     *)
C11_TerpenesCanonicalNonNegative ==
  \A i \in DOMAIN products :
    LET ts == products[i].terpenes
    IN /\ \A a, b \in DOMAIN ts :
            a # b => normalizeTerpName(ts[a].name) # normalizeTerpName(ts[b].name)
       /\ \A a \in DOMAIN ts : ts[a].pct # NaN /\ ts[a].pct # Null /\ ts[a].pct >= 0

(* C12 as stated: the session log is append-only: every entry of           *)
(* sessionLog is still in sessionLog, unmodified, after every store action. *)
C12_SessionLogAppendOnly ==
  [][\A i \in DOMAIN sessionLog : \E j \in DOMAIN sessionLog' : sessionLog'[j] = sessionLog[i]]_vars

(***************************************************************************)
(* The terpene canonicalizer on its own: a list of extracted (name, pct)   *)
(* pairs is either canonicalized name by name or merged.                   *)
(***************************************************************************)
MaxPairs == 3

RawTerpNames ==
  {"Myrcene", "[beta]-Myrcene", "beta-Myrcene", "Limonene", "D-Limonene",
   "[beta]-Caryophyllene", "beta caryophyllene", "Caryophyllene", "Linalool",
   "[alpha]-Humulene", "[alpha]-Bisabolol", "[alpha]-Pinene", "[beta]-Pinene",
   "Ocimenes", "Terpineol", "gamma-Terpineol", "Terpinolene", "Guaiol", "Total",
   "trans-Nerolidol", "cis-Ocimenes", "123",
   "myrcene", "limonene", "caryophyllene", "linalool", "humulene", "bisabolol", "pinene",
   "ocimene", "terpinolene", "terpineol", "guaiol", "total", "nerolidol", "ocimenes", ""}

(* names and percentages of the pairs that are merged: three spellings of   *)
(* caryophyllene, two names with keys of their own, one without a key       *)
MergedNames ==
  {"[beta]-Caryophyllene", "beta caryophyllene", "Caryophyllene", "Myrcene",
   "gamma-Terpineol", "123"}

MergedPcts == {500, 1000}

TerpPairs == [name : MergedNames, pct : MergedPcts]

TerpInputs ==
  { << [name |-> n, pct |-> 1000] >> : n \in RawTerpNames } \cup SeqsUpTo(TerpPairs, MaxPairs)

InitTerps ==
  /\ StoreInit
  /\ input \in TerpInputs
  /\ output = << >>

NormalizeNames ==
  /\ output = << >>
  /\ input \in TerpInputs
  /\ output' = << [op |-> "normalizeTerpName",
                   value |-> [i \in DOMAIN input |-> normalizeTerpName(input[i].name)]] >>
  /\ UNCHANGED << storeVars, input >>

CombineTerps ==
  /\ output = << >>
  /\ input \in TerpInputs
  /\ output' = << [op |-> "normalizeAndCombineTerps", value |-> normalizeAndCombineTerps(input)] >>
  /\ UNCHANGED << storeVars, input >>

NextTerps == NormalizeNames \/ CombineTerps

SpecTerps == InitTerps /\ [][NextTerps]_vars

NormalizeDone == output # << >> /\ input \in TerpInputs /\ output[1].op = "normalizeTerpName"

CombineDone ==
  output # << >> /\ input \in TerpInputs /\ output[1].op = "normalizeAndCombineTerps"

(* C13 as stated: normalizeTerpName applied to a name it returned returns   *)
(* that name again.                                                         *)
C13_NormalizeIdempotent ==
  NormalizeDone =>
    \A i \in DOMAIN output[1].value :
      normalizeTerpName(output[1].value[i]) = output[1].value[i]

(* the canonical keys of a pair list and the percentages under each key *)
KeysOf(pairs) == { normalizeTerpName(pairs[i].name) : i \in DOMAIN pairs } \ {""}

RECURSIVE SumUnder(_, _)
SumUnder(pairs, key) ==
  IF pairs = << >> THEN 0
  ELSE (IF normalizeTerpName(Head(pairs).name) = key THEN Head(pairs).pct ELSE 0)
       + SumUnder(Tail(pairs), key)

PctOf(result, key) == { result[i].pct : i \in { j \in DOMAIN result : result[j].name = key } }

Reorderings(pairs) ==
  { [i \in DOMAIN pairs |-> pairs[f[i]]] :
      f \in { g \in [DOMAIN pairs -> DOMAIN pairs] : \A a, b \in DOMAIN pairs : a # b => g[a] # g[b] } }

(* C14: normalizeAndCombineTerps returns exactly one entry for each         *)
(* canonical key of the pairs, holding the sum of the percentages of all    *)
(* pairs whose names map to that key, and returns the same entries for      *)
(* every permutation of the pairs.                                          *)
C14_MergeIsOrderFreeSum ==
  CombineDone =>
    LET result == output[1].value
    IN /\ { result[i].name : i \in DOMAIN result } = KeysOf(input)
       /\ Len(result) = Cardinality(KeysOf(input))
       /\ \A key \in KeysOf(input) : PctOf(result, key) = {SumUnder(input, key)}
       /\ \A p \in Reorderings(input) :
            \A key \in KeysOf(input) :
              PctOf(normalizeAndCombineTerps(p), key) = PctOf(result, key)

(* [beta]-Caryophyllene 1.0 and beta caryophyllene 0.5 have been merged *)
C14_Witness ==
  /\ CombineDone
  /\ input = << [name |-> "[beta]-Caryophyllene", pct |-> 1000],
                [name |-> "beta caryophyllene", pct |-> 500] >>
  /\ output[1].value = << [name |-> "caryophyllene", pct |-> 1500] >>

(***************************************************************************)
(* The engine's building blocks on their own: getTHCBand, thcBaseVector    *)
(* and applyTerpModifiers, each called once on one argument list.          *)
(***************************************************************************)
MaxThcSteps == 200

(* THC percents in mills: 0% to 100% and beyond in steps of 0.5%, the       *)
(* values next to every band edge, and what num() turns into 0 or leaves    *)
(* negative                                                                 *)
ThcPercents ==
  { 500 * k : k \in 0..MaxThcSteps }
  \cup UNION { {THC_BANDS[i].min - 1, THC_BANDS[i].min + 1} : i \in 1..Len(THC_BANDS) }
  \cup {Null, NaN}

(* potencies in 1/Scale: the six band potencies, a grid over [0,1] and two  *)
(* values outside it                                                        *)
Potencies ==
  { THC_BANDS[i].potency : i \in 1..Len(THC_BANDS) }
  \cup { 1000 * k : k \in 0..10 } \cup {0 - 2000, 12000}

SingleTerpNames ==
  {"caryophyllene", "linalool", "limonene", "myrcene", "humulene", "bisabolol",
   "terpinolene", "pinene", "ocimene"}

(* vectors the modifiers start from: the THC base vectors of the bands and  *)
(* the two vectors that sit on a clamp bound in every dimension             *)
StartVectors ==
  { thcBaseVector(THC_BANDS[i].potency) : i \in 1..Len(THC_BANDS) }
  \cup {ZeroVec, [d \in DOMAIN ZeroVec |-> Scale]}

EngineCalls ==
  [op : {"getTHCBand"}, thcPct : ThcPercents]
  \cup [op : {"thcBaseVector"}, potency : Potencies]
  \cup [op : {"applyTerpModifiers"}, vec : StartVectors, name : SingleTerpNames,
        pct : {500, 2000}, totalTerpenesPct : {1000, 2500, 12000}]

InitEngine ==
  /\ StoreInit
  /\ input \in EngineCalls
  /\ output = << >>

CallGetTHCBand ==
  /\ output = << >>
  /\ input \in EngineCalls
  /\ input.op = "getTHCBand"
  /\ output' = << getTHCBand(input.thcPct) >>
  /\ UNCHANGED << storeVars, input >>

CallThcBaseVector ==
  /\ output = << >>
  /\ input \in EngineCalls
  /\ input.op = "thcBaseVector"
  /\ output' = << thcBaseVector(input.potency) >>
  /\ UNCHANGED << storeVars, input >>

CallApplyTerpModifiers ==
  /\ output = << >>
  /\ input \in EngineCalls
  /\ input.op = "applyTerpModifiers"
  /\ output' = << applyTerpModifiers(input.vec,
                                     buildTerpMap(<< [name |-> input.name, pct |-> input.pct] >>),
                                     input.totalTerpenesPct) >>
  /\ UNCHANGED << storeVars, input >>

NextEngine == CallGetTHCBand \/ CallThcBaseVector \/ CallApplyTerpModifiers

SpecEngine == InitEngine /\ [][NextEngine]_vars

EngineDone(op) == output # << >> /\ input \in EngineCalls /\ input.op = op

(* min <= t < max, the last band having no upper bound *)
InBand(t, i) ==
  /\ t >= THC_BANDS[i].min
  /\ (i = Len(THC_BANDS) \/ t < THC_BANDS[i].max)

(* C15: for every THC percent t >= 0 exactly one entry of THC_BANDS         *)
(* satisfies min <= t < max, and getTHCBand(t) returns that entry.          *)
C15_BandsPartition ==
  (EngineDone("getTHCBand") /\ input.thcPct >= 0) =>
    /\ Cardinality({ i \in 1..Len(THC_BANDS) : InBand(input.thcPct, i) }) = 1
    /\ \E i \in 1..Len(THC_BANDS) : InBand(input.thcPct, i) /\ output[1] = THC_BANDS[i]

(* getTHCBand has answered for a THC percent that is a band edge *)
C15_Witness ==
  /\ EngineDone("getTHCBand")
  /\ input.thcPct = 25000
  /\ output[1].key = "very_high"

InUnit(p) == p >= 0 /\ p <= Scale

(* the two-point and three-point relations of C19 between the vector at     *)
(* potency p (v) and the vectors at potencies q (w) and r (x)               *)
RisesOrFalls(p, v, q, w) ==
  q > p => /\ w.head > v.head
           /\ w.pain > v.pain
           /\ w.clarity < v.clarity

SameSlope(p, v, q, w, r, x) ==
  \A d \in DOMAIN v : (w[d] - v[d]) * (r - p) = (x[d] - v[d]) * (q - p)

FasterThanHead(p, v, q, w, d) == q > p => (w[d] - v[d]) > (w.head - v.head)

(* C19 as stated: per dimension the THC base vector is an affine function   *)
(* of potency p in [0,1]; head and pain strictly rise with p, clarity       *)
(* strictly falls, and sedation and couch each rise faster than head.       *)
C19_ThcBaseVectorSlopes ==
  (EngineDone("thcBaseVector") /\ InUnit(input.potency)) =>
    \A q \in { k \in Potencies : InUnit(k) } :
      /\ RisesOrFalls(input.potency, output[1], q, thcBaseVector(q))
      /\ \A r \in { k \in Potencies : InUnit(k) } :
           SameSlope(input.potency, output[1], q, thcBaseVector(q), r, thcBaseVector(r))
      /\ FasterThanHead(input.potency, output[1], q, thcBaseVector(q), "sedation")
      /\ FasterThanHead(input.potency, output[1], q, thcBaseVector(q), "couch")

Raised(d) == output[1][d] > input.vec[d] \/ input.vec[d] = Scale

Lowered(d) == output[1][d] < input.vec[d] \/ input.vec[d] = 0

(* C20 as stated: with positive total terpenes and one terpene present,     *)
(* applyTerpModifiers moves each named dimension in the documented          *)
(* direction unless that dimension already sits on the clamp bound.         *)
C20_SingleTerpDirections ==
  EngineDone("applyTerpModifiers") =>
    /\ input.name = "caryophyllene" => Raised("pain") /\ Raised("sedation") /\ Lowered("head")
    /\ input.name = "linalool" =>
         Raised("sedation") /\ Raised("couch") /\ Lowered("clarity") /\ Lowered("head")
    /\ input.name = "limonene" => Raised("head") /\ Raised("clarity") /\ Lowered("sedation")
    /\ input.name = "myrcene" =>
         Raised("sedation") /\ Raised("couch") /\ Lowered("clarity") /\ Lowered("head")
    /\ input.name = "pinene" => Raised("clarity") /\ Lowered("sedation")
    /\ input.name = "terpinolene" => Raised("head") /\ Lowered("clarity")

(* positions of the myrcene entries of a terpene list *)
MyrceneAt(terpenes) ==
  { i \in DOMAIN terpenes :
      normalizeTerpName_engine(terpenes[i].name) \in {"myrcene", "beta-myrcene"} }

(* the product is one whose myrcene is a single entry at 0.6% *)
MyrceneAtSixTenths ==
  /\ BaselineDone
  /\ \E i \in DOMAIN input.terpenes :
       MyrceneAt(input.terpenes) = {i} /\ input.terpenes[i].pct = 600

(* the same product with its myrcene at 0.4% *)
WithMyrceneAtFourTenths(product) ==
  [product EXCEPT !.terpenes =
     [i \in DOMAIN product.terpenes |->
        IF i \in MyrceneAt(product.terpenes) THEN [product.terpenes[i] EXCEPT !.pct = 400]
        ELSE product.terpenes[i]]]

(* C16: whatever the THC percent, total-terpene percent, form and other     *)
(* terpenes, calculateBaseline gives a product with myrcene at 0.6% a       *)
(* strictly greater couch than the same product with myrcene at 0.4%.       *)
C16_MyrceneBoostRaisesCouch ==
  MyrceneAtSixTenths =>
    output[1].couch > calculateBaseline(WithMyrceneAtFourTenths(input)).couch

(* a topical product with myrcene at 0.6% among other terpenes has been     *)
(* scored: its couch is the boost alone, over 0 at 0.4%                     *)
C16_Witness ==
  /\ MyrceneAtSixTenths
  /\ Len(input.terpenes) = 2
  /\ output[1].formKey = "topical"
  /\ output[1].couch = 1200
  /\ calculateBaseline(WithMyrceneAtFourTenths(input)).couch = 0

(* x brought into [0,1] *)
Bound01(x) == IF x < 0 THEN 0 ELSE IF x > Scale THEN Scale ELSE x

(* the percentage (in mills) the product's terpene list holds under a name *)
PctUnder(product, keys) == terpGet(buildTerpMap(product.terpenes), keys)

(* C17: anxietyRisk starts as clamp01(ThcBand.anxietyRisk +                 *)
(* FormProfile.anxietyRiskAdd); then, in this order and each re-clamped to  *)
(* [0,1]: limonene > 0.3% subtracts 0.08, terpinolene > 0.3% adds 0.08,     *)
(* terpene retention < 0.5 multiplies the running value by 1.15; the last   *)
(* running value is the anxietyRisk returned.                               *)
C17_AnxietyRulesInOrder ==
  BaselineDone =>
    LET a == output[1].anxSteps
        band == getTHCBand(input.totalTHC)
        form == FORM_MODIFIERS[normalizeFormType(input.form)]
        limonene == PctUnder(input, << "limonene", "d-limonene" >>)
        terpinolene == PctUnder(input, << "terpinolene" >>)
    IN /\ a[1] = Bound01(band.anxietyRisk + form.anxietyRiskAdd)
       /\ a[2] = IF limonene > 300 THEN Bound01(a[1] - 800) ELSE a[1]
       /\ a[3] = IF terpinolene > 300 THEN Bound01(a[2] + 800) ELSE a[2]
       /\ a[4] = IF form.terpeneRetention < 5000 THEN Bound01((115 * a[3]) \div 100) ELSE a[3]
       /\ output[1].anxietyRisk = a[4]

(* all three rules have fired on one product, each moving the running value *)
C17_Witness ==
  /\ BaselineDone
  /\ PctUnder(input, << "limonene", "d-limonene" >>) > 300
  /\ PctUnder(input, << "terpinolene" >>) > 300
  /\ output[1].anxSteps[2] < output[1].anxSteps[1]
  /\ output[1].anxSteps[3] > output[1].anxSteps[2]
  /\ output[1].anxSteps[4] > output[1].anxSteps[3]

(* the per-dimension blend of a and b with weights wA and wB in hundredths, *)
(* as a weighted sum and as a weighted average                              *)
WeightedSum(a, b, wA, wB) == (a * wA + b * wB) \div 100

WeightedAverage(a, b, wA, wB) == (a * wA + b * wB) \div (wA + wB)

Near(x, y) == x - y \in {0 - 1, 0, 1}

(* C18 as stated: per dimension the THC base vector and the                 *)
(* terpene-adjusted vector are blended with the weights THC_WEIGHT = 0.65   *)
(* and TERP_WEIGHT = 0.25, and the form direct vector is blended into that  *)
(* result at FORM_WEIGHT = 0.10.                                            *)
C18_BlendUsesThcAndTerpWeights ==
  BaselineDone =>
    LET thcVec == output[1].steps[10]
        terpVec == output[1].steps[11]
        thcTerpBlend == output[1].steps[12]
        formVec == output[1].steps[13]
        baselineVec == output[1].steps[14]
    IN \A d \in VecDims :
         /\ \/ Near(thcTerpBlend[d], Bound01(WeightedSum(thcVec[d], terpVec[d], THC_WEIGHT, TERP_WEIGHT)))
            \/ Near(thcTerpBlend[d], WeightedAverage(thcVec[d], terpVec[d], THC_WEIGHT, TERP_WEIGHT))
         /\ Near(baselineVec[d],
                 WeightedSum(thcTerpBlend[d], formVec[d], 100 - FORM_WEIGHT, FORM_WEIGHT))

(* the lines of a text that are terpene candidates: not a skipped line,    *)
(* matched by one of the two name/percent patterns                          *)
Candidates(text) ==
  { i \in DOMAIN text.terpLines :
      /\ ~skippedLine(text.terpLines[i])
      /\ (text.terpLines[i].sign \/ ~GreekLed(text.terpLines[i].name)) }

PairOf(line) == [name |-> asciiTail(line.name), pct |-> line.pct]

IsPairOf(text, line) ==
  \E k \in DOMAIN extractTerpenePairs(text) : extractTerpenePairs(text)[k] = PairOf(line)

FirstOfItsName(text, i) ==
  \A j \in Candidates(text) :
    j < i => seenKey(asciiTail(text.terpLines[j].name)) # seenKey(asciiTail(text.terpLines[i].name))

(* C21 as stated: a terpene candidate whose percent is <= 0 or > 50 is      *)
(* discarded, and one whose percent lies in (0, 50] is not discarded on     *)
(* account of its percent (it is kept when no earlier candidate has its     *)
(* name).                                                                   *)
C21_PercentRangeHalfOpen ==
  (ParseDone /\ ~input.blank) =>
    \A i \in Candidates(input) :
      LET line == input.terpLines[i]
      IN /\ (line.pct <= 0 \/ line.pct > 50000) => ~IsPairOf(input, line)
         /\ (line.pct > 0 /\ line.pct <= 50000 /\ FirstOfItsName(input, i)) =>
              IsPairOf(input, line)

(***************************************************************************)
(* src/utils/coaPdfParser.js: findTotalTHC, the total-THC chain applied to *)
(* the text of a PDF before readFileAsText writes its result out as a      *)
(* "Total THC: NN.N%" line.  A PDF text is [totalTHC, within300, thca, d9, *)
(* potency]: the percent after "Total THC" on the same line, the first     *)
(* percent within 300 characters after the label, the THCa and Delta-9     *)
(* percents (Null when no pattern matches) and the set of percents in the  *)
(* POTENCY SUMMARY block; all in mills.                                    *)
(***************************************************************************)
(* Number(x.toFixed(1)) for x = n / d percent-mills: one decimal of a percent *)
toFixed1(n, d) == 100 * MathRound(n, 100 * d)

findTotalTHC(fullText) ==
  IF fullText.totalTHC # Null /\ fullText.totalTHC >= 5000 THEN fullText.totalTHC
  ELSE IF fullText.within300 # Null /\ fullText.within300 >= 5000 THEN fullText.within300
  ELSE LET thca == fullText.thca
           d9 == fullText.d9
           total1000 == 1000 * (IF d9 = Null THEN 0 ELSE d9)
                        + 877 * (IF thca = Null THEN 0 ELSE thca)
           pcts == { x \in fullText.potency : x >= 5000 /\ x <= 99000 }
       IN IF (thca # Null \/ d9 # Null) /\ total1000 > 0 THEN toFixed1(total1000, 1000)
          ELSE IF pcts # {} THEN toFixed1(CHOOSE x \in pcts : \A y \in pcts : y <= x, 1)
          ELSE Null

(* the texts the two extractors are given: a same-line label value is also  *)
(* the first percent after the label                                        *)
ThcLabelValues == {Null, 3000, 22500, 77140}
ThcaValues == {Null, 0, 25000, 60000}
D9Values == {Null, 0, 20000}

PdfThcTexts ==
  { t \in [op : {"findTotalTHC"}, totalTHC : ThcLabelValues, within300 : ThcLabelValues,
           thca : ThcaValues, d9 : D9Values, potency : {{}, {3000, 12000, 64260}}] :
      t.totalTHC # Null => t.within300 = t.totalTHC }

CoaThcTexts ==
  [op : {"extractTotalTHC"}, totalTHC : ThcLabelValues \cup {NaN}, thca : ThcaValues,
   d9 : D9Values]

ThcTexts == PdfThcTexts \cup CoaThcTexts

InitThc ==
  /\ StoreInit
  /\ input \in ThcTexts
  /\ output = << >>

CallFindTotalTHC ==
  /\ output = << >>
  /\ input \in ThcTexts
  /\ input.op = "findTotalTHC"
  /\ output' = << findTotalTHC(input) >>
  /\ UNCHANGED << storeVars, input >>

CallExtractTotalTHC ==
  /\ output = << >>
  /\ input \in ThcTexts
  /\ input.op = "extractTotalTHC"
  /\ output' = << extractTotalTHC(input) >>
  /\ UNCHANGED << storeVars, input >>

NextThc == CallFindTotalTHC \/ CallExtractTotalTHC

SpecThc == InitThc /\ [][NextThc]_vars

ThcDone == output # << >> /\ input \in ThcTexts

(* Delta-9 + THCa * 0.877 in thousandths of a mill *)
ComponentSum1000(text) ==
  1000 * (IF text.d9 = Null THEN 0 ELSE text.d9) + 877 * (IF text.thca = Null THEN 0 ELSE text.thca)

(* C22 as stated: an explicit Total THC label with a value gives that value *)
(* whatever the components are; without a label, components that are        *)
(* present give Delta-9 + THCa * 0.877 (to within the rounding of the       *)
(* result, 0.05 of a percent).                                              *)
C22_FirstSuccessWins ==
  ThcDone =>
    /\ (input.totalTHC # Null /\ input.totalTHC # NaN) => output[1] = input.totalTHC
    /\ (/\ input.totalTHC = Null
        /\ input.op = "findTotalTHC" => input.within300 = Null
        /\ (input.thca # Null \/ input.d9 # Null)
        /\ ComponentSum1000(input) > 0) =>
          /\ output[1] # Null
          /\ 1000 * output[1] - ComponentSum1000(input) \in (0 - 50000)..50000

(***************************************************************************)
(* An imported profile under the scoring functions: importProfileJson      *)
(* stores whatever arrays the document holds, and App.jsx then scores      *)
(* every product against the stored session log.  A JSON null inside an    *)
(* array is the entry NullEntry.                                           *)
(***************************************************************************)
MaxEntries == 2

NullEntry == [null |-> TRUE]

IsNullEntry(e) == "null" \in DOMAIN e

(* products of an imported document: a complete one, one whose fields are   *)
(* all missing, and null                                                    *)
ImportedProducts ==
  { ScoringProduct(1, "Flower", 22000, 2500, << [name |-> "myrcene", pct |-> 600] >>),
    ScoringProduct(2, NullStr, Null, Null, << >>),
    NullEntry }

(* session entries of an imported document: a full rating of product 1, a   *)
(* full rating of a product that is not in the list, an entry without       *)
(* ratings, and null                                                        *)
ImportedSessions ==
  { [id |-> 11, productId |-> 1, actuals |-> AllDims(250), notes |-> ""],
    [id |-> 12, productId |-> 9, actuals |-> AllDims(400), notes |-> ""],
    [id |-> 13, productId |-> 1, actuals |-> AllDims(Null), notes |-> ""],
    NullEntry }

ProfileDocs ==
  [valid : {TRUE}, profileName : {NullStr}, hasProducts : {TRUE},
   products : SeqsUpTo(ImportedProducts, MaxEntries),
   hasSessionLog : {TRUE}, sessionLog : SeqsUpTo(ImportedSessions, MaxEntries)]

(* session.actuals?.[dim] is a number for some dimension *)
HasNumericActual(session) == \E d \in DimSet : session.actuals[d] # Null

(* allProducts.find(p => p.id === productId) reaches a null element, whose  *)
(* p.id is a TypeError, before it reaches a product with that id            *)
RECURSIVE findThrows(_, _)
findThrows(allProducts, productId) ==
  IF allProducts = << >> THEN FALSE
  ELSE IF IsNullEntry(Head(allProducts)) THEN TRUE
  ELSE IF Head(allProducts).id = productId THEN FALSE
  ELSE findThrows(Tail(allProducts), productId)

(* calculateUserCalibration raises a TypeError: session.productId of a null *)
(* session, or the find of a rated session running into a null product      *)
calibrationThrows(log, allProducts) ==
  \E i \in DOMAIN log :
    \/ IsNullEntry(log[i])
    \/ HasNumericActual(log[i]) /\ findThrows(allProducts, log[i].productId)

(* the products find() can reach when nothing throws *)
RECURSIVE beforeNull(_)
beforeNull(allProducts) ==
  IF allProducts = << >> \/ IsNullEntry(Head(allProducts)) THEN << >>
  ELSE << Head(allProducts) >> \o beforeNull(Tail(allProducts))

(* calculateBaselineScores(p) followed by calculatePersonalizedScores(...)  *)
(* for one product of the store, as scoresById does in personalized mode:   *)
(* the scores, or the exception that came out                               *)
personalizedOrThrown(p, log, allProducts) ==
  IF Len(log) > 0 /\ calibrationThrows(log, allProducts)
  THEN [threw |-> "TypeError", productId |-> p.id, scores |-> << >>]
  ELSE [threw |-> "", productId |-> p.id,
        scores |-> << calculatePersonalizedScores(calculateBaselineScores(p), log, p.id,
                                                  beforeNull(allProducts)) >>]

InitProfile ==
  /\ StoreInit
  /\ input = << >>
  /\ output = << >>

ImportProfile ==
  /\ \E doc \in ProfileDocs : importProfileJson(doc, 0)
  /\ output' = << >>
  /\ UNCHANGED input

ScoreProduct ==
  /\ output = << >>
  /\ \E i \in DOMAIN products :
       /\ ~IsNullEntry(products[i])
       /\ output' = << personalizedOrThrown(products[i], sessionLog, products) >>
  /\ UNCHANGED << storeVars, input >>

NextProfile == ImportProfile \/ ScoreProduct

SpecProfile == InitProfile /\ [][NextProfile]_vars

(* C23 as stated: for every product, product list and session log the       *)
(* store can hold after an import, the scoring functions return scores and  *)
(* raise nothing.                                                           *)
C23_ScoringNeverThrows ==
  output # << >> => output[1].threw = ""

(* the entries of a list that do not carry the id, in their order *)
ProductsBut(list, id) == SelectSeq(list, LAMBDA p : p.id # id)

SessionsBut(list, id) == SelectSeq(list, LAMBDA e : e.productId # id)

UploadIds == {1, 2}

(* one file of each outcome: a product, a text without a product, a throw *)
UploadFiles == {f \in CoaFiles : f.kind # "image"}

InitConcurrent ==
  /\ products = << >>
  /\ sessionLog = << >>
  /\ profileName = "Default"
  /\ lastError = ""
  /\ nextId = 1
  /\ batches = [b \in UploadIds |-> IdleBatch]
  /\ ret = NoRet
  /\ exported = << >>
  /\ input = << >>
  /\ output = << >>

StartUpload ==
  /\ UNCHANGED << input, output >>
  /\ \E b \in UploadIds :
       /\ \A c \in UploadIds : c < b => batches[c].status # "idle"
       /\ \E files \in SeqsUpTo(UploadFiles, MaxFiles) : handleCoaFilesCall(b, files)

UploadReadSettles ==
  /\ \E b \in UploadIds :
       /\ handleCoaFilesStep(b)
       /\ output' = (IF Len(products') > Len(products)
                     THEN Append(output, [by |-> b, id |-> products'[1].id])
                     ELSE output)
  /\ UNCHANGED input

AddProductMeanwhile ==
  /\ Room
  /\ \E form \in {f \in ManualForms : Len(f.lines) = 2} : addProduct(manualProduct(form))
  /\ output' = Append(output, [by |-> 0, id |-> ret'.n])
  /\ UNCHANGED input

AddSessionMeanwhile ==
  /\ UNCHANGED << input, output >>
  /\ Len(sessionLog) < MaxSessions
  /\ nextId <= MaxId
  /\ products # << >>
  /\ addSessionEntry(products[1].id, AllDims(250), "")

NextConcurrent == StartUpload \/ UploadReadSettles \/ AddProductMeanwhile \/ AddSessionMeanwhile

SpecConcurrent == InitConcurrent /\ [][NextConcurrent]_vars

BothUploadsDone == \A b \in UploadIds : batches[b].status = "done"

TimesInStore(id) == Cardinality({i \in DOMAIN products : products[i].id = id})

HandedOverBy(b) == {output[k].id : k \in {j \in DOMAIN output : output[j].by = b}}

(* C25: once both uploads have completed, every product that either upload *)
(* or addProduct handed to the store is in products exactly once, and each *)
(* upload's returned added count is the number of its products in the      *)
(* store.                                                                  *)
C25_NoProductLostUnderInterleaving ==
  BothUploadsDone =>
    /\ \A k \in DOMAIN output : TimesInStore(output[k].id) = 1
    /\ Len(products) = Len(output)
    /\ \A b \in UploadIds :
         batches[b].added =
           Cardinality({i \in DOMAIN products : products[i].id \in HandedOverBy(b)})

(* C25 witness: both uploads are complete, the reads of the second settled *)
(* between two reads of the first, and a manual product and a session      *)
(* entry arrived in between                                                *)
C25_Witness ==
  /\ BothUploadsDone
  /\ sessionLog # << >>
  /\ \E i, j, k, m \in DOMAIN output :
       /\ i < j /\ j < k /\ k < m
       /\ output[i].by = 1 /\ output[j].by = 0 /\ output[k].by = 2 /\ output[m].by = 1

(***************************************************************************)
(* src/App.jsx scoresById in personalized mode, call by call: every        *)
(* product p of the list is scored with                                    *)
(* calculatePersonalizedScores(baseline, sessionLog, p.id, products); the  *)
(* same call is made once more with another productId argument.            *)
(***************************************************************************)
MaxRatings == 2

PersonalProductLists ==
  { << ScoringProduct(1, "Flower", 22000, 2500,
         << [name |-> "myrcene", pct |-> 900], [name |-> "linalool", pct |-> 400] >>),
       ScoringProduct(2, "Flower", 22000, 2500,
         << [name |-> "myrcene", pct |-> 900], [name |-> "linalool", pct |-> 400] >>),
       ScoringProduct(3, "Gummy", 90000, Null, << >>) >>,
    << ScoringProduct(1, "Cart", 85000, 12000,
         << [name |-> "terpinolene", pct |-> 4000], [name |-> "pinene", pct |-> 1500] >>),
       ScoringProduct(2, "Flower", 12000, 800, << [name |-> "ocimene", pct |-> 300] >>) >> }

PersonalInputs ==
  [op : {"personalize"}, products : PersonalProductLists,
   log : SeqsUpTo(ScoringEntries, MaxRatings), otherId : {Null, 1, 2, 9}]

InitPersonal ==
  /\ StoreInit
  /\ input \in PersonalInputs
  /\ output = << >>

personalizedRow(p, log, otherId, allProducts) ==
  Only({ [id |-> p.id,
          baseline |-> baseline,
          personalized |-> calculatePersonalizedScores(baseline, log, p.id, allProducts),
          asOther |-> calculatePersonalizedScores(baseline, log, otherId, allProducts)] :
           baseline \in {calculateBaselineScores(p)} })

Personalize ==
  /\ output = << >>
  /\ input \in PersonalInputs
  /\ output' = << [i \in DOMAIN input.products |->
                     personalizedRow(input.products[i], input.log, input.otherId,
                                     input.products)] >>
  /\ UNCHANGED << storeVars, input >>

NextPersonal == Personalize

SpecPersonal == InitPersonal /\ [][NextPersonal]_vars

PersonalDone == output # << >> /\ input \in PersonalInputs

RatedIn(log, id) ==
  \E k \in DOMAIN log : log[k].productId = id /\ \E d \in DimSet : log[k].actuals[d] # Null

(* C26: the result of calculatePersonalizedScores does not depend on its    *)
(* productId argument, and for one session log and product list any two     *)
(* products with equal baseline scores get equal personalized scores,       *)
(* whether or not either was rated.                                         *)
C26_ProductIdIsIgnored ==
  PersonalDone =>
    /\ \A i \in DOMAIN output[1] : output[1][i].personalized = output[1][i].asOther
    /\ \A i, j \in DOMAIN output[1] :
         output[1][i].baseline = output[1][j].baseline =>
           output[1][i].personalized = output[1][j].personalized

(* C26 witness: two products with equal baselines, one rated and one not,   *)
(* whose personalized scores the log moved away from the baseline, and a    *)
(* second call made with a productId other than the product's own           *)
C26_Witness ==
  /\ PersonalDone
  /\ \E i, j \in DOMAIN output[1] :
       /\ i # j
       /\ output[1][i].baseline = output[1][j].baseline
       /\ RatedIn(input.log, output[1][i].id)
       /\ ~RatedIn(input.log, output[1][j].id)
       /\ output[1][i].personalized # output[1][i].baseline
       /\ input.otherId # output[1][i].id
       /\ input.otherId # output[1][j].id

(***************************************************************************)
(* calculateBaseline on a terpene list as it was typed (ManualInput.jsx    *)
(* stores the names it captured) and on the same list after the store's    *)
(* normalizeAndCombineTerps (what a COA-parsed product carries)            *)
(***************************************************************************)
MaxSpellings == 2

SpellingEntries ==
  { [name |-> "Myrcene", pct |-> 600], [name |-> "[beta]-Myrcene", pct |-> 600],
    [name |-> "Beta Myrcene", pct |-> 600],
    [name |-> "Limonene", pct |-> 200], [name |-> "D-Limonene", pct |-> 200],
    [name |-> "Terpinolene", pct |-> 400], [name |-> "Terpineol", pct |-> 400],
    [name |-> "Caryophyllene", pct |-> 1500], [name |-> "[beta]-Caryophyllene", pct |-> 1500],
    [name |-> "Linalool", pct |-> 400] }

SpellingInputs ==
  [op : {"spelling"}, totalTHC : {22000, 74800}, totalTerpenes : {2500}, form : {"Flower"},
   terpenes : SeqsUpTo(SpellingEntries, MaxSpellings)]

InitSpelling ==
  /\ StoreInit
  /\ input \in SpellingInputs
  /\ output = << >>

baselineOf(in, terpenes) ==
  calculateBaseline([totalTHC |-> in.totalTHC, totalTerpenes |-> in.totalTerpenes,
                     form |-> in.form, terpenes |-> terpenes])

CompareSpellings ==
  /\ output = << >>
  /\ input \in SpellingInputs
  /\ output' = << [asTyped |-> baselineOf(input, input.terpenes),
                   merged |-> baselineOf(input, normalizeAndCombineTerps(input.terpenes))] >>
  /\ UNCHANGED << storeVars, input >>

NextSpelling == CompareSpellings

SpecSpelling == InitSpelling /\ [][NextSpelling]_vars

SpellingDone == output # << >> /\ input \in SpellingInputs

(* C27 as stated: calculateBaseline gives the same result for a terpene    *)
(* list and for that list canonicalized and merged (normalizeTerpName and  *)
(* summation), so that spelling variants of one terpene score alike.       *)
C27_SpellingInsensitive ==
  SpellingDone => output[1].asTyped = output[1].merged

(* the import of a document that JSON.parse rejects *)
FailedImport == IoUnchanged /\ \E doc \in ForeignDocs : ~doc.valid /\ importProfileJson(doc, 0)

(* C28: an import of a string that is not valid JSON returns {ok: false,    *)
(* error}, sets lastError to a message and leaves products, sessionLog and  *)
(* profileName as they were.                                                *)
C28_FailedImportChangesNothing ==
  [][FailedImport =>
       /\ ret'.op = "importProfileJson" /\ ret'.result = "error"
       /\ lastError' # ""
       /\ products' = products
       /\ sessionLog' = sessionLog
       /\ profileName' = profileName]_vars

(* C28 witness: a failed import has just returned in a store that holds a   *)
(* product, a session entry and a profile name of the user's                *)
C28_Witness ==
  /\ ret.op = "importProfileJson" /\ ret.result = "error"
  /\ lastError # ""
  /\ products # << >>
  /\ sessionLog # << >>
  /\ profileName = "Sam"

(* C29 as stated: a successful import keeps, for each of products,          *)
(* sessionLog and profileName, the previous value when the document does    *)
(* not supply that field.                                                   *)
C29_ImportKeepsWhatIsNotSupplied ==
  [][\A doc \in ForeignDocs :
       (doc.valid /\ IoUnchanged /\ importProfileJson(doc, 0)) =>
         /\ ~doc.hasProducts => products' = products
         /\ ~doc.hasSessionLog => sessionLog' = sessionLog
         /\ doc.profileName = NullStr => profileName' = profileName]_vars

(***************************************************************************)
(* vite.config.js: the dev-server middleware behind /api/proxy-coa.        *)
(* input is the request with the handler's position (pc), the number of    *)
(* upstream fetches it has issued and what the upstream answered; output   *)
(* is the list of responses ended on res, by status code.                  *)
(***************************************************************************)
ALLOWED_HOSTS == {"mete.labdrive.net"}

MAX == 10 * 1024 * 1024

NoUrl == [ok |-> FALSE, protocol |-> "", hostname |-> ""]

(* new URL(target): protocol and hostname are lower-cased, the port and    *)
(* the userinfo are not part of hostname; a string without a scheme throws *)
parseUrl(target) ==
  CASE target = "https://mete.labdrive.net/coa/1.pdf" ->
         [ok |-> TRUE, protocol |-> "https:", hostname |-> "mete.labdrive.net"]
    [] target = "HTTPS://METE.LABDRIVE.NET/coa/1.pdf" ->
         [ok |-> TRUE, protocol |-> "https:", hostname |-> "mete.labdrive.net"]
    [] target = "https://mete.labdrive.net:8443/coa/1.pdf" ->
         [ok |-> TRUE, protocol |-> "https:", hostname |-> "mete.labdrive.net"]
    [] target = "http://mete.labdrive.net/coa/1.pdf" ->
         [ok |-> TRUE, protocol |-> "http:", hostname |-> "mete.labdrive.net"]
    [] target = "https://evil.example/coa/1.pdf" ->
         [ok |-> TRUE, protocol |-> "https:", hostname |-> "evil.example"]
    [] target = "https://mete.labdrive.net.evil.example/1.pdf" ->
         [ok |-> TRUE, protocol |-> "https:", hostname |-> "mete.labdrive.net.evil.example"]
    [] target = "https://mete.labdrive.net@evil.example/1.pdf" ->
         [ok |-> TRUE, protocol |-> "https:", hostname |-> "evil.example"]
    [] target = "file:///etc/passwd" ->
         [ok |-> TRUE, protocol |-> "file:", hostname |-> ""]
    [] OTHER -> NoUrl

ProxyTargets ==
  { NullStr, "", "mete.labdrive.net/coa/1.pdf",
    "https://mete.labdrive.net/coa/1.pdf", "HTTPS://METE.LABDRIVE.NET/coa/1.pdf",
    "https://mete.labdrive.net:8443/coa/1.pdf", "http://mete.labdrive.net/coa/1.pdf",
    "https://evil.example/coa/1.pdf", "https://mete.labdrive.net.evil.example/1.pdf",
    "https://mete.labdrive.net@evil.example/1.pdf", "file:///etc/passwd" }

(* req.url is a path and the url parameter of its query, NullStr if absent *)
ProxyPaths == {"/api/proxy-coa", "/api/proxy-coa/", "/api/products"}

startsWithProxyCoa(path) == path \in {"/api/proxy-coa", "/api/proxy-coa/"}

NoUpstream == [outcome |-> "", bytes |-> 0, disposition |-> ""]

ProxyRequests ==
  [op : {"proxy"}, path : ProxyPaths, target : ProxyTargets, pc : {"received"}, fetches : {0},
   up : {NoUpstream}]

(* what content-disposition headers filenameFrom is given; the last one    *)
(* makes decodeURIComponent throw                                          *)
Dispositions == {"", "attachment; filename=coa.pdf", "attachment; filename=%E0%A4%A"}

filenameThrows(disposition) == disposition = "attachment; filename=%E0%A4%A"

(* a host check that forgets the scheme *)
targetAllowed_anyScheme(u) == u.hostname \in ALLOWED_HOSTS

targetAllowed(u) == u.protocol = "https:" /\ u.hostname \in ALLOWED_HOSTS

InitProxy ==
  /\ StoreInit
  /\ input \in ProxyRequests
  /\ output = << >>

(* res.statusCode = status; res.end(...); return *)
respond(status) ==
  /\ output' = Append(output, status)
  /\ input' = [input EXCEPT !.pc = "done"]

(* the middleware up to its first await *)
HandleRequest ==
  /\ input \in ProxyRequests
  /\ IF ~startsWithProxyCoa(input.path)
     THEN input' = [input EXCEPT !.pc = "next"] /\ UNCHANGED output
     ELSE IF input.target = NullStr \/ input.target = "" THEN respond(400)
     ELSE IF ~parseUrl(input.target).ok THEN respond(400)
     ELSE IF ~targetAllowed(parseUrl(input.target)) THEN respond(403)
     ELSE /\ input' = [input EXCEPT !.pc = "fetching", !.fetches = @ + 1]
          /\ UNCHANGED output
  /\ UNCHANGED storeVars

(* await fetch(...) settles: a response that is ok or not, the 12 s abort, *)
(* or a network error                                                      *)
FetchSettles ==
  /\ input.op = "proxy" /\ input.pc = "fetching"
  /\ \E outcome \in {"ok", "notOk", "abort", "error"} :
       CASE outcome = "ok" ->
              /\ input' = [input EXCEPT !.pc = "reading", !.up.outcome = outcome]
              /\ UNCHANGED output
         [] outcome = "notOk" ->
              /\ output' = Append(output, 502)
              /\ input' = [input EXCEPT !.pc = "done", !.up.outcome = outcome]
         [] OTHER ->
              /\ output' = Append(output, 500)
              /\ input' = [input EXCEPT !.pc = "done", !.up.outcome = outcome]
  /\ UNCHANGED storeVars

(* await resp.arrayBuffer() settles and the handler runs to its end: a     *)
(* rejected read and a throwing filenameFrom both land in the catch block, *)
(* the latter after statusCode was set to 200 and before res.end           *)
BodySettles ==
  /\ input.op = "proxy" /\ input.pc = "reading"
  /\ \E readable \in BOOLEAN : \E bytes \in {0, MAX, MAX + 1} : \E disposition \in Dispositions :
       /\ output' = Append(output,
                      IF ~readable THEN 500
                      ELSE IF bytes > MAX THEN 413
                      ELSE IF filenameThrows(disposition) THEN 500
                      ELSE 200)
       /\ input' = [input EXCEPT !.pc = "done",
                                 !.up = [outcome |-> IF readable THEN "body" ELSE "bodyError",
                                         bytes |-> bytes, disposition |-> disposition]]
  /\ UNCHANGED storeVars

NextProxy == HandleRequest \/ FetchSettles \/ BodySettles

SpecProxy == InitProxy /\ [][NextProxy]_vars

HttpsAllowedTarget ==
  /\ input.target \notin {NullStr, ""}
  /\ parseUrl(input.target).ok
  /\ parseUrl(input.target).protocol = "https:"
  /\ parseUrl(input.target).hostname \in ALLOWED_HOSTS

(* C30: the proxy issues an upstream fetch only for a target URL that uses *)
(* https and whose hostname is in ALLOWED_HOSTS; every other request to    *)
(* /api/proxy-coa is answered with status 400 or 403 and no upstream       *)
(* request; no request gets more than one response and a request the       *)
(* handler is done with has got exactly one.                               *)
C30_ProxyFetchesOnlyAllowedHttps ==
  input.op = "proxy" =>
    /\ input.fetches > 0 => HttpsAllowedTarget
    /\ input.fetches <= 1
    /\ Len(output) <= 1
    /\ input.pc = "done" => Len(output) = 1
    /\ (input.pc # "received" /\ startsWithProxyCoa(input.path) /\ ~HttpsAllowedTarget) =>
         /\ input.pc = "done"
         /\ input.fetches = 0
         /\ output[1] \in {400, 403}

(* C30 witness: a request for an allowed host over http was refused with   *)
(* 403 and nothing was fetched                                             *)
C30_Witness ==
  /\ input.op = "proxy" /\ input.pc = "done"
  /\ input.target = "http://mete.labdrive.net/coa/1.pdf"
  /\ output = << 403 >>
  /\ input.fetches = 0

====
